---- MODULE Spec2Model ----
(***************************************************************************)
(* Interaction engine of svelte-tablecn's data grid.                       *)
(*                                                                         *)
(* Part 1 models the useDataGrid hook (src/lib/hooks/use-data-grid.svelte  *)
(* .ts): focus, editing, selection, drag, clipboard negotiation and the    *)
(* grid key handler.  Part 2 models the DataGridStore class and the        *)
(* createKeyboardHandler dispatcher built on it.                           *)
(*                                                                         *)
(* Strings that the code takes apart (cell keys, clipboard text) are       *)
(* sequences of one-character strings, so that formatting and parsing are  *)
(* computed and not assumed.                                               *)
(***************************************************************************)
EXTENDS Integers, Sequences, FiniteSets, TLC

\* ------------------------------------------------------------------------
\* Bounds of the model
\* ------------------------------------------------------------------------

\* Largest number of rows the host's data array holds.
MaxRows == 2

\* Largest number of clipboard reads in flight at once.
MaxPendingPastes == 1

\* Calls of the host's onRowsAdd that may be awaited at once.
MaxPendingExpansions == 1
MaxKeyRow == 120

\* attemptFocus callbacks that may wait for an animation frame at once.
MaxFocusAttempts == 2

\* Uploads of the file cell that may be awaited at once, and the ids
\* crypto.randomUUID() may hand out.
MaxUploads == 2
MaxFileIds == 4

\* ------------------------------------------------------------------------
\* Values
\* ------------------------------------------------------------------------

\* Column ids, as character sequences.
ColSelect == <<"s", "e", "l", "e", "c", "t">>
ColActions == <<"a", "c", "t", "i", "o", "n", "s">>
ColA == <<"a">>
ColB == <<"b">>

\* const NON_NAVIGABLE_COLUMNS = new Set(['select', 'actions'])
NON_NAVIGABLE_COLUMNS == {ColSelect, ColActions}

\* table.getAllColumns(): the column definitions of the grid under test, a
\* structural row-select column followed by two data columns, all visible.
getAllColumns == <<ColSelect, ColA, ColB>>

\* null for a CellPosition | null, a CellRange | null and a number | null.
NoCell == [rowIndex |-> -1000, columnId |-> <<>>]
NoRange == [start |-> NoCell, end |-> NoCell]
NoRow == -1000

Pos(r, c) == [rowIndex |-> r, columnId |-> c]

\* JavaScript cell values: null, a string (characters) or an integer number.
NullValue == [type |-> "null", val |-> <<>>]
Str(chars) == [type |-> "string", val |-> chars]
Num(n) == [type |-> "number", val |-> n]

Min(a, b) == IF a <= b THEN a ELSE b
Max(a, b) == IF a >= b THEN a ELSE b

\* ------------------------------------------------------------------------
\* Cell addressing (types/data-grid: getCellKey, parseCellKey)
\* ------------------------------------------------------------------------

DigitChars == <<"0", "1", "2", "3", "4", "5", "6", "7", "8", "9">>

RECURSIVE NatToStr(_)
NatToStr(n) ==
    IF n < 10 THEN <<DigitChars[n + 1]>>
    ELSE NatToStr(n \div 10) \o <<DigitChars[(n % 10) + 1]>>

\* String(n) of a JavaScript integer.
IntToStr(n) == IF n < 0 THEN <<"-">> \o NatToStr(-n) ELSE NatToStr(n)

\* return `${rowIndex}:${columnId}`
getCellKey(rowIndex, columnId) == IntToStr(rowIndex) \o <<":">> \o columnId

\* text.split(sep) for a one-character separator: always at least one part.
RECURSIVE SplitFrom(_, _, _, _)
SplitFrom(text, sep, i, cur) ==
    IF i > Len(text) THEN <<cur>>
    ELSE IF text[i] = sep THEN <<cur>> \o SplitFrom(text, sep, i + 1, <<>>)
    ELSE SplitFrom(text, sep, i + 1, Append(cur, text[i]))

Split(text, sep) == SplitFrom(text, sep, 1, <<>>)

IsDigit(ch) == \E d \in 1..10 : DigitChars[d] = ch
DigitVal(ch) == (CHOOSE d \in 1..10 : DigitChars[d] = ch) - 1

\* Value of the longest prefix of digits of s starting at i, given acc so far.
RECURSIVE DigitsValue(_, _, _)
DigitsValue(s, i, acc) ==
    IF i > Len(s) \/ ~IsDigit(s[i]) THEN acc
    ELSE DigitsValue(s, i + 1, acc * 10 + DigitVal(s[i]))

\* parseInt(s, 10) on a string without leading blanks: an optional sign, then
\* the longest run of digits; NaN when that run is empty.
ParseIntIsNaN(s) ==
    LET body == IF Len(s) > 0 /\ s[1] \in {"-", "+"} THEN Tail(s) ELSE s
    IN  Len(body) = 0 \/ ~IsDigit(body[1])

ParseInt(s) ==
    IF Len(s) > 0 /\ s[1] = "-" THEN -DigitsValue(Tail(s), 1, 0)
    ELSE IF Len(s) > 0 /\ s[1] = "+" THEN DigitsValue(Tail(s), 1, 0)
    ELSE DigitsValue(s, 1, 0)

\* parseCellKey reading one digit of the row index.
parseCellKeyOneDigit(cellKey) ==
    LET parts == Split(cellKey, ":")
        rowIndexStr == parts[1]
        columnId == IF Len(parts) >= 2 THEN parts[2] ELSE <<>>
    IN  IF Len(rowIndexStr) > 0 /\ Len(columnId) > 0 /\ ~ParseIntIsNaN(rowIndexStr)
        THEN Pos(ParseInt(<<rowIndexStr[1]>>), columnId)
        ELSE Pos(0, <<>>)

parseCellKey(cellKey) ==
    LET parts == Split(cellKey, ":")
        rowIndexStr == parts[1]
        columnId == IF Len(parts) >= 2 THEN parts[2] ELSE <<>>
    IN  IF Len(rowIndexStr) > 0 /\ Len(columnId) > 0 /\ ~ParseIntIsNaN(rowIndexStr)
        THEN Pos(ParseInt(rowIndexStr), columnId)
        ELSE Pos(0, <<>>)

\* ---- text ----

UpperCaseLetters ==
    <<"A", "B", "C", "D", "E", "F", "G", "H", "I", "J", "K", "L", "M",
      "N", "O", "P", "Q", "R", "S", "T", "U", "V", "W", "X", "Y", "Z">>
LowerCaseLetters ==
    <<"a", "b", "c", "d", "e", "f", "g", "h", "i", "j", "k", "l", "m",
      "n", "o", "p", "q", "r", "s", "t", "u", "v", "w", "x", "y", "z">>

\* text.textToLowerCase() over the ASCII characters the model uses.
textToLowerCase(text) ==
    [i \in 1..Len(text) |->
        IF \E k \in 1..26 : UpperCaseLetters[k] = text[i]
        THEN LowerCaseLetters[CHOOSE k \in 1..26 : UpperCaseLetters[k] = text[i]]
        ELSE text[i]]

\* text.includes(part)
includes(text, part) ==
    \E i \in 0..(Len(text) - Len(part)) : SubSeq(text, i + 1, i + Len(part)) = part

\* String(value ?? '')
StringOfValue(value) ==
    IF value.type = "null" THEN <<>>
    ELSE IF value.type = "number" THEN IntToStr(value.val)
    ELSE value.val

\* ------------------------------------------------------------------------
\* Part 1: the useDataGrid hook
\* ------------------------------------------------------------------------

VARIABLES
    data,                 \* the host's data array: a sequence of rows, column id -> value
    clipboard,            \* the text held by navigator.clipboard
    readOnly,             \* options.readOnly
    onRowsAdd,            \* the host supplied options.onRowsAdd
    onDataChange,         \* the host supplied options.onDataChange (which stores the new data)
    autoFocusPending,     \* the auto-focus-on-mount microtask has not run yet
    focusedCell,
    editingCell,
    selectionState,       \* [selectedCells, selectionRange, isSelecting]
    selectionAnchor,
    cutCells,
    searchOpen,
    searchQuery,
    searchMatches,        \* the matching cells in scan order
    matchIndex,
    searchMatchSet,       \* the SvelteSet of match keys the cells look themselves up in
    sorting,              \* the table's SortingState: a sequence of [id, desc]
    columnFilters,        \* the table's ColumnFiltersState: a sequence of [id, value]
    pasteDialog,          \* [open, rowsNeeded, clipboardText]
    pastePending,         \* pasteFromClipboard awaits navigator.clipboard.readText()
    expanding,            \* onPasteWithExpansion awaits the host's onRowsAdd(n): the
                          \* sequence of the n of the calls not yet settled
    rowSelection,         \* row ids whose rowSelection entry is true
    lastClickedRowIndex,
    emitted,              \* host callbacks invoked by the last operation
    store,                \* Part 2: the fields of one DataGridStore, and the option
                          \* callbacks (onCopy, ...) its key handler invoked last
    keyPosition,          \* Part 3: the position a caller of getCellKey passed last,
    keyText,              \* the key it got back,
    parsedKey,            \* and what parseCellKey made of that key, once called
    debounceTimer,        \* the search bar's debounce timer: <<>> when none is
                          \* armed, else <<query>> with the query it will search
    cellMapRef,           \* the keys of the cells whose element is mounted
    focusAttempts,        \* focusCell's attemptFocus callbacks waiting for an
                          \* animation frame, oldest first: [cellKey, attempts]
    activeElement,        \* the key of the cell that holds DOM focus, <<>> for none
    fileCell,             \* Part 4: the state of one file cell, the uploads it
                          \* awaits, and the onDataUpdate it called last
    keyboard              \* the last call of a keyboard utility, <<>> for none:
                          \* <<"matchesKeyBinding", event, binding, result>> or
                          \* <<"getKeyboardAction", event, result>>

hookVars == <<data, clipboard, readOnly, onRowsAdd, onDataChange, autoFocusPending, focusedCell, editingCell,
              selectionState, selectionAnchor, cutCells, searchOpen, searchQuery,
              searchMatches, matchIndex, searchMatchSet, sorting, columnFilters,
              pasteDialog, pastePending, expanding, rowSelection, lastClickedRowIndex, emitted>>

keyVars == <<keyPosition, keyText, parsedKey>>

domVars == <<cellMapRef, focusAttempts, activeElement>>

vars == <<hookVars, store, keyVars, debounceTimer, domVars, fileCell, keyboard>>


\* The host options the model leaves fixed: enableSearch and enablePaste at
\* their default (true); onPaste, onRowAdd and onRowsDelete are supplied.

\* The mutable state a handler threads through the functions it calls.
Cur ==
    [focusedCell |-> focusedCell,
     editingCell |-> editingCell,
     selectionState |-> selectionState,
     selectionAnchor |-> selectionAnchor,
     cutCells |-> cutCells,
     searchOpen |-> searchOpen,
     searchQuery |-> searchQuery,
     searchMatches |-> searchMatches,
     matchIndex |-> matchIndex,
     searchMatchSet |-> searchMatchSet,
     sorting |-> sorting,
     columnFilters |-> columnFilters,
     pasteDialog |-> pasteDialog,
     pastePending |-> pastePending,
     expanding |-> expanding,
     rowSelection |-> rowSelection,
     lastClickedRowIndex |-> lastClickedRowIndex,
     clipboard |-> clipboard,
     data |-> data,
     emitted |-> {}]

Commit(s) ==
    /\ focusedCell' = s.focusedCell
    /\ editingCell' = s.editingCell
    /\ selectionState' = s.selectionState
    /\ selectionAnchor' = s.selectionAnchor
    /\ cutCells' = s.cutCells
    /\ searchOpen' = s.searchOpen
    /\ searchQuery' = s.searchQuery
    /\ searchMatches' = s.searchMatches
    /\ matchIndex' = s.matchIndex
    /\ searchMatchSet' = s.searchMatchSet
    /\ sorting' = s.sorting
    /\ columnFilters' = s.columnFilters
    /\ pasteDialog' = s.pasteDialog
    /\ pastePending' = s.pastePending
    /\ expanding' = s.expanding
    /\ rowSelection' = s.rowSelection
    /\ lastClickedRowIndex' = s.lastClickedRowIndex
    /\ emitted' = s.emitted
    /\ clipboard' = s.clipboard
    /\ data' = s.data

\* ---- the table's row model ----

\* filterFns.includesString, the filter function of the data columns: the
\* cell's value as text holds the filter value, letter case aside; null and
\* undefined never pass.
includesString(row, filter) ==
    /\ filter.id \in DOMAIN row
    /\ row[filter.id].type # "null"
    /\ includes(textToLowerCase(StringOfValue(row[filter.id])), textToLowerCase(filter.value))

\* a > b of JavaScript for numbers and null (null compares as 0); the
\* specifications that sort keep the sorted column numeric or null.
JsGreater(a, b) ==
    LET num(v) == IF v.type = "number" THEN v.val ELSE 0
    IN  a.type # "string" /\ b.type # "string" /\ num(a) > num(b)

\* sortingFns.basic under the sort entries: row i of the data goes before
\* row j; rows that compare equal under every entry keep their data order.
RECURSIVE SortsBefore(_, _, _, _)
SortsBefore(rows, entries, i, j) ==
    IF Len(entries) = 0 THEN i < j
    ELSE LET e == Head(entries)
             a == IF e.id \in DOMAIN rows[i + 1] THEN rows[i + 1][e.id] ELSE NullValue
             b == IF e.id \in DOMAIN rows[j + 1] THEN rows[j + 1][e.id] ELSE NullValue
         IN  IF a = b THEN SortsBefore(rows, Tail(entries), i, j)
             ELSE IF e.desc THEN JsGreater(a, b) ELSE ~JsGreater(a, b)

\* Insertion of data index i into a sorted sequence of data indices.
RECURSIVE InsertSorted(_, _, _, _)
InsertSorted(rows, entries, sorted, i) ==
    IF Len(sorted) = 0 THEN <<i>>
    ELSE IF SortsBefore(rows, entries, i, Head(sorted)) THEN <<i>> \o sorted
    ELSE <<Head(sorted)>> \o InsertSorted(rows, entries, Tail(sorted), i)

RECURSIVE SortIndices(_, _, _)
SortIndices(rows, entries, indices) ==
    IF Len(indices) = 0 THEN <<>>
    ELSE InsertSorted(rows, entries, SortIndices(rows, entries, Tail(indices)), Head(indices))

\* table.getRowModel().rows as the data index (0-based) of each displayed
\* row: the rows that pass every column filter, sorted by the sort entries.
getRowModel(s) ==
    LET all == [i \in 1..Len(s.data) |-> i - 1]
        filtered == SelectSeq(all, LAMBDA i :
                        \A k \in 1..Len(s.columnFilters) :
                            includesString(s.data[i + 1], s.columnFilters[k]))
    IN  IF s.sorting = <<>> /\ s.columnFilters = <<>> THEN all
        ELSE IF s.sorting = <<>> THEN filtered
        ELSE SortIndices(s.data, s.sorting, filtered)

\* rows.length
RowsLength(s) == Len(getRowModel(s))

\* table.getRowModel().rows.length in the current state.
rowCount == RowsLength(Cur)

EmptySelection == [selectedCells |-> {}, selectionRange |-> NoRange, isSelecting |-> FALSE]
ClosedPasteDialog == [open |-> FALSE, rowsNeeded |-> 0, clipboardText |-> <<>>]

\* ---- helpers ----

getNavigableColumns ==
    SelectSeq(getAllColumns, LAMBDA col : col \notin NON_NAVIGABLE_COLUMNS)

\* cols.findIndex((c) => c.id === id), 0-based, -1 when absent.
FindIndex(cols, id) ==
    IF \E i \in 1..Len(cols) : cols[i] = id
    THEN (CHOOSE i \in 1..Len(cols) : cols[i] = id /\ \A j \in 1..(i - 1) : cols[j] # id) - 1
    ELSE -1

\* cols[i]?.id ?? null for a 0-based index i; <<>> stands for null.
ColAt(cols, i) == IF i >= 0 /\ i < Len(cols) THEN cols[i + 1] ELSE <<>>

getFirstNavigableColumnId == ColAt(getNavigableColumns, 0)
getLastNavigableColumnId == ColAt(getNavigableColumns, Len(getNavigableColumns) - 1)

getNextNavigableColumnId(currentColumnId, direction) ==
    LET cols == getNavigableColumns
        currentIndex == FindIndex(cols, currentColumnId)
        nextIndex == IF direction = "right" THEN currentIndex + 1 ELSE currentIndex - 1
    IN  IF currentIndex = -1 THEN <<>> ELSE ColAt(cols, nextIndex)

\* ---- focus and navigation ----

focusCell(s, rowIndex, columnId, keepAnchor) ==
    LET s1 == [s EXCEPT !.focusedCell = Pos(rowIndex, columnId)]
    IN  IF ~s1.selectionState.isSelecting /\ ~keepAnchor
        THEN [s1 EXCEPT !.selectionState =
                            [selectedCells |-> {getCellKey(rowIndex, columnId)},
                             selectionRange |-> NoRange,
                             isSelecting |-> FALSE],
                        !.selectionAnchor = Pos(rowIndex, columnId)]
        ELSE s1

blurCell(s) == [s EXCEPT !.focusedCell = NoCell, !.editingCell = NoCell]

\* Rows moved by PageUp / PageDown.
PageSize == 10

\* The cell a direction leads to from the focused cell, as navigateCell
\* computes it; columnId <<>> stands for a null newColumnId.
navigateCellTarget(s, direction) ==
    LET rowIndex == s.focusedCell.rowIndex
        columnId == s.focusedCell.columnId
        prevCol == getNextNavigableColumnId(columnId, "left")
        nextCol == getNextNavigableColumnId(columnId, "right")
    IN  CASE direction = "up" -> Pos(Max(0, rowIndex - 1), columnId)
          [] direction = "down" -> Pos(Min(RowsLength(s) - 1, rowIndex + 1), columnId)
          [] direction = "left" ->
                IF prevCol # <<>> THEN Pos(rowIndex, prevCol)
                ELSE IF rowIndex > 0 THEN Pos(rowIndex - 1, getLastNavigableColumnId)
                ELSE Pos(rowIndex, columnId)
          [] direction = "right" ->
                IF nextCol # <<>> THEN Pos(rowIndex, nextCol)
                ELSE IF rowIndex < RowsLength(s) - 1 THEN Pos(rowIndex + 1, getFirstNavigableColumnId)
                ELSE Pos(rowIndex, columnId)
          [] direction = "home" -> Pos(rowIndex, getFirstNavigableColumnId)
          [] direction = "end" -> Pos(rowIndex, getLastNavigableColumnId)
          [] direction = "ctrl+home" -> Pos(0, getFirstNavigableColumnId)
          [] direction = "ctrl+end" -> Pos(RowsLength(s) - 1, getLastNavigableColumnId)
          [] direction = "pageup" -> Pos(Max(0, rowIndex - PageSize), columnId)
          [] direction = "pagedown" -> Pos(Min(RowsLength(s) - 1, rowIndex + PageSize), columnId)
          [] OTHER -> Pos(rowIndex, columnId)

navigateCell(s, direction) ==
    IF s.focusedCell = NoCell THEN s
    ELSE LET new == navigateCellTarget(s, direction)
         IN  IF new.columnId # <<>> /\ new # s.focusedCell
             THEN focusCell(s, new.rowIndex, new.columnId, FALSE)
             ELSE s

\* The target of a Shift+navigation key; NoCell stands for a null result.
getNavigationTarget(s, direction) ==
    IF s.focusedCell = NoCell THEN NoCell
    ELSE LET rowIndex == s.focusedCell.rowIndex
             columnId == s.focusedCell.columnId
             new ==
                CASE direction = "up" -> Pos(Max(0, rowIndex - 1), columnId)
                  [] direction = "down" -> Pos(Min(RowsLength(s) - 1, rowIndex + 1), columnId)
                  [] direction = "left" -> Pos(rowIndex, getNextNavigableColumnId(columnId, "left"))
                  [] direction = "right" -> Pos(rowIndex, getNextNavigableColumnId(columnId, "right"))
                  [] direction = "home" -> Pos(rowIndex, getFirstNavigableColumnId)
                  [] direction = "end" -> Pos(rowIndex, getLastNavigableColumnId)
                  [] direction = "ctrl+home" -> Pos(0, getFirstNavigableColumnId)
                  [] direction = "ctrl+end" -> Pos(RowsLength(s) - 1, getLastNavigableColumnId)
                  [] direction = "pageup" -> Pos(Max(0, rowIndex - PageSize), columnId)
                  [] direction = "pagedown" -> Pos(Min(RowsLength(s) - 1, rowIndex + PageSize), columnId)
                  [] OTHER -> Pos(rowIndex, columnId)
         IN  IF new.columnId # <<>> THEN new ELSE NoCell

\* ---- editing ----

startEditing(s, rowIndex, columnId) ==
    IF readOnly THEN s ELSE [s EXCEPT !.editingCell = Pos(rowIndex, columnId)]

\* opts.direction is "" when absent.
NoOpts == [direction |-> "", moveToNextRow |-> FALSE]

\* stopEditing closing the editor without looking at its options.
stopEditingIgnoringOptions(s, opts) == [s EXCEPT !.editingCell = NoCell]

stopEditing(s, opts) ==
    LET s1 == [s EXCEPT !.editingCell = NoCell]
    IN  IF opts.direction # "" THEN navigateCell(s1, opts.direction)
        ELSE IF opts.moveToNextRow /\ s1.focusedCell # NoCell THEN navigateCell(s1, "down")
        ELSE s1

\* ---- selection ----

\* selectRange's keys with the column span taken from start to end as given.
RangeKeysFromStart(cols, start, end) ==
    LET startColIndex == FindIndex(cols, start.columnId)
        endColIndex == FindIndex(cols, end.columnId)
        minRow == Min(start.rowIndex, end.rowIndex)
        maxRow == Max(start.rowIndex, end.rowIndex)
    IN  {getCellKey(row, ColAt(cols, col)) :
            <<row, col>> \in {rc \in (minRow..maxRow) \X (startColIndex..endColIndex) :
                                 ColAt(cols, rc[2]) # <<>>}}

\* The keys selectRange collects: rows minRow..maxRow by column indexes
\* minCol..maxCol of cols, skipping indexes that name no column.
RangeKeys(cols, start, end) ==
    LET startColIndex == FindIndex(cols, start.columnId)
        endColIndex == FindIndex(cols, end.columnId)
        minRow == Min(start.rowIndex, end.rowIndex)
        maxRow == Max(start.rowIndex, end.rowIndex)
        minCol == Min(startColIndex, endColIndex)
        maxCol == Max(startColIndex, endColIndex)
    IN  {getCellKey(row, ColAt(cols, col)) :
            <<row, col>> \in {rc \in (minRow..maxRow) \X (minCol..maxCol) : ColAt(cols, rc[2]) # <<>>}}

selectRange(s, start, end, keepSelecting) ==
    [s EXCEPT !.selectionState =
        [selectedCells |-> RangeKeys(getNavigableColumns, start, end),
         selectionRange |-> [start |-> start, end |-> end],
         isSelecting |-> IF keepSelecting THEN s.selectionState.isSelecting ELSE FALSE]]

\* new Set(selected) with cellKey added.
ToggleKeyAddOnly(selected, cellKey) == selected \cup {cellKey}

\* new Set(selected) with cellKey deleted when present and added when absent.
ToggleKey(selected, cellKey) ==
    IF cellKey \in selected THEN selected \ {cellKey} ELSE selected \cup {cellKey}

\* A mouse event without modifiers; also stands for an absent event.
PlainMouse == [button |-> 0, ctrlKey |-> FALSE, metaKey |-> FALSE, shiftKey |-> FALSE]

selectCell(s, rowIndex, columnId, event) ==
    LET cellKey == getCellKey(rowIndex, columnId)
        s1 == IF event.ctrlKey \/ event.metaKey
              THEN [s EXCEPT !.selectionState.selectedCells =
                                 ToggleKey(s.selectionState.selectedCells, cellKey)]
              ELSE IF event.shiftKey /\ s.focusedCell # NoCell
              THEN selectRange(s, s.focusedCell, Pos(rowIndex, columnId), FALSE)
              ELSE [s EXCEPT !.selectionState =
                                 [selectedCells |-> {cellKey},
                                  selectionRange |-> NoRange,
                                  isSelecting |-> FALSE]]
    IN  focusCell(s1, rowIndex, columnId, FALSE)

selectAll(s) ==
    LET cols == getNavigableColumns
    IN  [s EXCEPT !.selectionState =
            [selectedCells |-> {getCellKey(row, cols[i]) :
                                   <<row, i>> \in (0..(RowsLength(s) - 1)) \X (1..Len(cols))},
             selectionRange |-> NoRange,
             isSelecting |-> FALSE]]

clearSelection(s) == blurCell([s EXCEPT !.selectionState = EmptySelection])

\* ---- mouse selection (drag) ----

onCellMouseDown(s, rowIndex, columnId, event) ==
    LET cellKey == getCellKey(rowIndex, columnId)
        here == Pos(rowIndex, columnId)
    IN  IF event.button # 0 THEN s
        ELSE IF event.ctrlKey \/ event.metaKey
        THEN [s EXCEPT !.selectionState.selectedCells =
                           ToggleKey(s.selectionState.selectedCells, cellKey),
                       !.selectionState.isSelecting = FALSE,
                       !.focusedCell = here]
        ELSE IF event.shiftKey /\ (s.selectionAnchor # NoCell \/ s.focusedCell # NoCell)
        THEN LET anchor == IF s.selectionAnchor # NoCell THEN s.selectionAnchor ELSE s.focusedCell
                 s1 == selectRange(s, anchor, here, FALSE)
             IN  [s1 EXCEPT !.selectionState.isSelecting = FALSE, !.focusedCell = here]
        ELSE focusCell([s EXCEPT !.selectionState =
                                     [selectedCells |-> {cellKey},
                                      selectionRange |-> NoRange,
                                      isSelecting |-> TRUE],
                                 !.selectionAnchor = here],
                       rowIndex, columnId, FALSE)

\* onCellMouseEnter extending the selection without keeping the drag going.
onCellMouseEnterEndingDrag(s, rowIndex, columnId) ==
    IF ~s.selectionState.isSelecting \/ s.selectionAnchor = NoCell THEN s
    ELSE selectRange(s, s.selectionAnchor, Pos(rowIndex, columnId), FALSE)

onCellMouseEnter(s, rowIndex, columnId) ==
    IF ~s.selectionState.isSelecting \/ s.selectionAnchor = NoCell THEN s
    ELSE selectRange(s, s.selectionAnchor, Pos(rowIndex, columnId), TRUE)

\* onCellMouseUp ending a drag only once it has produced a range.
onCellMouseUpAfterRange(s) ==
    IF s.selectionState.selectionRange = NoRange THEN s
    ELSE [s EXCEPT !.selectionState.isSelecting = FALSE]

onCellMouseUp(s) == [s EXCEPT !.selectionState.isSelecting = FALSE]

\* ---- row selection (meta.onRowSelect) ----

onRowSelect(s, rowIndex, selected, shiftKey) ==
    IF rowIndex < 0 \/ rowIndex >= RowsLength(s) THEN s
    ELSE LET rows == getRowModel(s)
             touched ==
                IF shiftKey /\ s.lastClickedRowIndex # NoRow
                THEN {rows[i + 1] :
                        i \in {j \in Min(s.lastClickedRowIndex, rowIndex)..Max(s.lastClickedRowIndex, rowIndex) :
                                  j >= 0 /\ j < Len(rows)}}
                ELSE {rows[rowIndex + 1]}
             newRowSelection ==
                IF selected THEN s.rowSelection \cup touched ELSE s.rowSelection \ touched
             selectedCellsSet ==
                {getCellKey(rowIdx, getAllColumns[i]) :
                    <<rowIdx, i>> \in {r \in 0..(Len(rows) - 1) : rows[r + 1] \in newRowSelection}
                                          \X (1..Len(getAllColumns))}
         IN  [s EXCEPT !.rowSelection = newRowSelection,
                       !.selectionState = [selectedCells |-> selectedCellsSet,
                                           selectionRange |-> NoRange,
                                           isSelecting |-> FALSE],
                       !.focusedCell = NoCell,
                       !.editingCell = NoCell,
                       !.lastClickedRowIndex = rowIndex]

\* ---- data ----

\* The ids of the columns that hold data (accessor columns).
DataColumns == {getAllColumns[i] : i \in 1..Len(getAllColumns)} \ NON_NAVIGABLE_COLUMNS

\* The row the host's data holds at index r before any edit.
InitialRow(r) ==
    [c \in DataColumns |->
        IF c = ColA THEN Str(<<"x">>) ELSE Num(r)]

InitialData(n) == [r \in 1..n |-> InitialRow(r - 1)]

\* rows[rowIndex].getValue(columnId); undefined reads as null.
getValue(s, rowIndex, columnId) ==
    LET rows == getRowModel(s)
    IN  IF rowIndex >= 0 /\ rowIndex < Len(rows) /\ columnId \in DOMAIN s.data[rows[rowIndex + 1] + 1]
        THEN s.data[rows[rowIndex + 1] + 1][columnId]
        ELSE NullValue

\* ---- clipboard ----

formatCellValueForCopy(value) ==
    IF value.type = "null" THEN <<>>
    ELSE IF value.type = "number" THEN IntToStr(value.val)
    ELSE value.val

\* parts.join(sep)
RECURSIVE Join(_, _)
Join(parts, sep) ==
    IF Len(parts) = 0 THEN <<>>
    ELSE IF Len(parts) = 1 THEN parts[1]
    ELSE parts[1] \o <<sep>> \o Join(Tail(parts), sep)

\* The TSV text copySelectedCells builds for a set of selected keys.
CopyText(s, selected) ==
    LET cols == getNavigableColumns
        inCols == {parseCellKey(k) : k \in {k \in selected :
                        FindIndex(cols, parseCellKey(k).columnId) >= 0}}
        rowsOf == {p.rowIndex : p \in inCols}
        colsOf == {FindIndex(cols, p.columnId) : p \in inCols}
        minRow == CHOOSE r \in rowsOf : \A q \in rowsOf : r <= q
        maxRow == CHOOSE r \in rowsOf : \A q \in rowsOf : r >= q
        minCol == CHOOSE c \in colsOf : \A q \in colsOf : c <= q
        maxCol == CHOOSE c \in colsOf : \A q \in colsOf : c >= q
        cell(row, col) ==
            IF getCellKey(row, ColAt(cols, col)) \in selected
            THEN formatCellValueForCopy(getValue(s, row, ColAt(cols, col)))
            ELSE <<>>
        line(row) == Join([i \in 1..(maxCol - minCol + 1) |-> cell(row, minCol + i - 1)], "\t")
        present == SelectSeq([i \in 1..(maxRow - minRow + 1) |-> minRow + i - 1],
                             LAMBDA row : row >= 0 /\ row < RowsLength(s))
    IN  IF inCols = {} THEN <<>>
        ELSE Join([i \in 1..Len(present) |-> line(present[i])], "\n")

copySelectedCells(s) ==
    IF s.selectionState.selectedCells = {} THEN s
    ELSE [s EXCEPT !.clipboard = CopyText(s, s.selectionState.selectedCells)]

\* cutSelectedCells clearing the cut cells at once instead of at the paste.
cutSelectedCellsClearingAtOnce(s) ==
    IF readOnly THEN s
    ELSE LET cut == [copySelectedCells(s) EXCEPT !.cutCells = s.selectionState.selectedCells]
         IN  [cut EXCEPT !.data = [i \in DOMAIN @ |->
                                       [c \in DOMAIN @[i] |->
                                           IF getCellKey(i - 1, c) \in cut.cutCells
                                           THEN NullValue ELSE @[i][c]]],
                         !.emitted = @ \cup {"onDataChange"}]

cutSelectedCells(s) ==
    IF readOnly THEN s
    ELSE [copySelectedCells(s) EXCEPT !.cutCells = s.selectionState.selectedCells]

\* { ...baseRow, [columnId]: value }
SetField(row, columnId, value) ==
    [c \in (DOMAIN row) \cup {columnId} |-> IF c = columnId THEN value ELSE row[c]]

\* newData of handleDataUpdate: the rows with the updates applied in order;
\* an update whose rowIndex names no row is skipped.
RECURSIVE ApplyUpdates(_, _)
ApplyUpdates(rows, updates) ==
    IF Len(updates) = 0 THEN rows
    ELSE LET u == Head(updates)
             next == IF u.rowIndex >= 0 /\ u.rowIndex < Len(rows)
                     THEN [rows EXCEPT ![u.rowIndex + 1] = SetField(@, u.columnId, u.value)]
                     ELSE rows
         IN  ApplyUpdates(next, Tail(updates))

\* handleDataUpdate hands newData to the host's onDataChange (when the host
\* supplied one), which stores it as the grid's data.
\* The updates of handleDataUpdate keyed by targetIndex, the index in the
\* data of the row displayed at update.rowIndex; an update whose rowIndex
\* names no displayed row is skipped.
TargetUpdates(s, updates) ==
    LET rows == getRowModel(s)
        shown == SelectSeq(updates, LAMBDA u : u.rowIndex >= 0 /\ u.rowIndex < Len(rows))
    IN  [k \in 1..Len(shown) |-> [shown[k] EXCEPT !.rowIndex = rows[shown[k].rowIndex + 1]]]

\* newData of handleDataUpdate: one entry for each index below
\* tableRowCount, the number of displayed rows, holding the data row at that
\* index with the updates targeted at it.
NewData(s, updates) ==
    SubSeq(ApplyUpdates(s.data, TargetUpdates(s, updates)), 1, RowsLength(s))


handleDataUpdate(s, updates) ==
    IF readOnly THEN s
    ELSE IF Len(updates) = 0 THEN s
    ELSE IF ~onDataChange THEN s
    ELSE [s EXCEPT !.data = NewData(s, updates),
                   !.emitted = @ \cup {"onDataChange"}]

\* A set of keys as a sequence, in the order of the keys' positions.
RECURSIVE KeysToUpdates(_)
KeysToUpdates(keys) ==
    IF keys = {} THEN <<>>
    ELSE LET k == CHOOSE x \in keys : TRUE
         IN  <<[rowIndex |-> parseCellKey(k).rowIndex,
                columnId |-> parseCellKey(k).columnId,
                value |-> NullValue]>> \o KeysToUpdates(keys \ {k})

IsBlank(ch) == ch \in {" ", "\t", "\n"}

\* text.trim() is empty
TrimIsEmpty(text) == \A i \in 1..Len(text) : IsBlank(text[i])

\* Number(text) is not NaN and text.trim() is not empty, for text over the
\* characters the model pastes: a non-empty run of digits.
IsNumeric(text) == Len(text) > 0 /\ \A i \in 1..Len(text) : IsDigit(text[i])

parseCellValueForPaste(text) ==
    IF IsNumeric(text) THEN Num(DigitsValue(text, 1, 0)) ELSE Str(text)

\* text.split('\n').map((line) => line.split('\t'))
ParseLines(text) ==
    LET lines == Split(text, "\n") IN [i \in 1..Len(lines) |-> Split(lines[i], "\t")]

\* The updates of the first line of the clipboard matrix only.
PasteUpdatesFirstLine(s, text, startPos, startColIndex) ==
    LET cols == getNavigableColumns
        line == ParseLines(text)[1]
        fitCols == IF startColIndex < 0 THEN 0
                   ELSE Max(0, Min(Len(line), Len(cols) - startColIndex))
    IN  IF startPos.rowIndex >= RowsLength(s) THEN <<>>
        ELSE [cellIdx \in 1..fitCols |->
                 [rowIndex |-> startPos.rowIndex,
                  columnId |-> ColAt(cols, startColIndex + cellIdx - 1),
                  value |-> parseCellValueForPaste(line[cellIdx])]]

\* The updates performPaste builds from the clipboard matrix.
PasteUpdates(s, text, startPos, startColIndex) ==
    LET cols == getNavigableColumns
        lines == ParseLines(text)
        fitRows == Max(0, Min(Len(lines), RowsLength(s) - startPos.rowIndex))
        fitCols(line) ==
            IF startColIndex < 0 THEN 0
            ELSE Max(0, Min(Len(line), Len(cols) - startColIndex))
        lineUpdates(lineIdx) ==
            [cellIdx \in 1..fitCols(lines[lineIdx]) |->
                [rowIndex |-> startPos.rowIndex + lineIdx - 1,
                 columnId |-> ColAt(cols, startColIndex + cellIdx - 1),
                 value |-> parseCellValueForPaste(lines[lineIdx][cellIdx])]]
        RECURSIVE upTo(_)
        upTo(n) == IF n = 0 THEN <<>> ELSE upTo(n - 1) \o lineUpdates(n)
    IN  upTo(fitRows)

\* The batch performPaste hands to handleDataUpdate and onPaste without the
\* clear-operations of the cut cells.
PasteBatchWithoutCut(s, text, startPos, startColIndex) ==
    PasteUpdates(s, text, startPos, startColIndex)

\* The batch performPaste hands to handleDataUpdate and onPaste when the
\* matrix yields an update: the pasted values, then null for every cut cell.
PasteBatch(s, text, startPos, startColIndex) ==
    LET pasted == PasteUpdates(s, text, startPos, startColIndex)
    IN  IF s.cutCells # {} THEN pasted \o KeysToUpdates(s.cutCells) ELSE pasted

performPaste(s, text, startPos, startColIndex) ==
    LET pasted == PasteUpdates(s, text, startPos, startColIndex)
        updates == PasteBatch(s, text, startPos, startColIndex)
        s1 == [s EXCEPT !.cutCells = {}]
    IN  IF Len(pasted) = 0 THEN s
        ELSE [handleDataUpdate(s1, updates) EXCEPT !.emitted = @ \cup {"onPaste"}]

\* The paste target: focusedCell || { rowIndex: 0, columnId: cols[0]?.id || '' }
PasteStart(s) ==
    IF s.focusedCell # NoCell THEN s.focusedCell ELSE Pos(0, ColAt(getNavigableColumns, 0))

\* pasteFromClipboard up to its await of navigator.clipboard.readText().
pasteFromClipboard(s) ==
    IF readOnly THEN s ELSE [s EXCEPT !.pastePending = @ + 1]

\* pasteFromClipboard dropping the cut set when the clipboard read fails.
pasteFromClipboardCatchClearingCut(s) == [s EXCEPT !.pastePending = @ - 1, !.cutCells = {}]

\* pasteFromClipboard after readText() rejected: the empty catch block.
pasteFromClipboardCatch(s) == [s EXCEPT !.pastePending = @ - 1]

\* pasteFromClipboard after readText(), counting the rows needed from the
\* top of the grid instead of from the target row.
pasteFromClipboardResumeFromTop(s, text) ==
    LET startPos == PasteStart(s)
        startColIndex == FindIndex(getNavigableColumns, startPos.columnId)
        rowsNeeded == Len(ParseLines(text)) - RowsLength(s)
        s1 == [s EXCEPT !.pastePending = @ - 1]
    IN  IF TrimIsEmpty(text) THEN s1
        ELSE IF rowsNeeded > 0 /\ onRowsAdd
        THEN [s1 EXCEPT !.pasteDialog =
                            [open |-> TRUE, rowsNeeded |-> rowsNeeded, clipboardText |-> text]]
        ELSE performPaste(s1, text, startPos, startColIndex)

\* pasteFromClipboard after readText() resolved with text.
pasteFromClipboardResume(s, text) ==
    LET startPos == PasteStart(s)
        startColIndex == FindIndex(getNavigableColumns, startPos.columnId)
        rowsNeeded == startPos.rowIndex + Len(ParseLines(text)) - RowsLength(s)
        s1 == [s EXCEPT !.pastePending = @ - 1]
    IN  IF TrimIsEmpty(text) THEN s1
        ELSE IF rowsNeeded > 0 /\ onRowsAdd
        THEN [s1 EXCEPT !.pasteDialog =
                            [open |-> TRUE, rowsNeeded |-> rowsNeeded, clipboardText |-> text]]
        ELSE performPaste(s1, text, startPos, startColIndex)

\* ---- delete / clear ----

clearSelectedCells(s) ==
    IF readOnly THEN s
    ELSE handleDataUpdate(s, KeysToUpdates(s.selectionState.selectedCells))

\* ---- keyboard ----

NavigationKeys ==
    {"ArrowUp", "ArrowDown", "ArrowLeft", "ArrowRight", "Home", "End", "PageUp", "PageDown"}

\* Keys whose event.key is one character long.
PrintableKeys == {"a", "c", "f", "v", "x", "q", " "}

\* navigationMap[event.key]
navigationMap(event) ==
    CASE event.key = "ArrowUp" -> "up"
      [] event.key = "ArrowDown" -> "down"
      [] event.key = "ArrowLeft" -> "left"
      [] event.key = "ArrowRight" -> "right"
      [] event.key = "Home" -> IF event.ctrlKey \/ event.metaKey THEN "ctrl+home" ELSE "home"
      [] event.key = "End" -> IF event.ctrlKey \/ event.metaKey THEN "ctrl+end" ELSE "end"
      [] event.key = "PageUp" -> "pageup"
      [] event.key = "PageDown" -> "pagedown"
      [] OTHER -> ""

\* The Shift+navigation branch with the range taken from the focused cell.
extendSelectionFromFocus(s, direction) ==
    LET newPos == getNavigationTarget(s, direction)
    IN  IF newPos = NoCell THEN s
        ELSE [selectRange(s, s.focusedCell, newPos, FALSE) EXCEPT !.focusedCell = newPos]

\* The Shift+navigation branch of handleKeyDown.
extendSelection(s, direction) ==
    LET anchor == IF s.selectionAnchor # NoCell THEN s.selectionAnchor ELSE s.focusedCell
        newPos == getNavigationTarget(s, direction)
    IN  IF newPos = NoCell THEN s
        ELSE [selectRange(s, anchor, newPos, FALSE) EXCEPT !.focusedCell = newPos]

\* handleKeyDown, the keydown listener of the grid element (enableSearch is
\* left at its default, true).
handleKeyDown(s, event) ==
    LET ctrl == event.ctrlKey \/ event.metaKey
    IN  IF ctrl /\ event.key = "f" THEN [s EXCEPT !.searchOpen = ~@]
        ELSE IF ctrl /\ event.key = "c" THEN copySelectedCells(s)
        ELSE IF ctrl /\ event.key = "x" THEN cutSelectedCells(s)
        ELSE IF ctrl /\ event.key = "v" THEN pasteFromClipboard(s)
        ELSE IF ctrl /\ event.key = "a" THEN selectAll(s)
        ELSE IF event.key \in {"Delete", "Backspace"} /\ s.editingCell = NoCell
        THEN clearSelectedCells(s)
        ELSE IF event.key = "Escape"
        THEN IF s.editingCell # NoCell THEN stopEditing(s, NoOpts)
             ELSE IF s.searchOpen THEN [s EXCEPT !.searchOpen = FALSE]
             ELSE clearSelection(s)
        ELSE IF s.editingCell # NoCell THEN s
        ELSE IF event.key \in NavigationKeys
        THEN IF event.shiftKey /\ s.focusedCell # NoCell
             THEN extendSelection(s, navigationMap(event))
             ELSE navigateCell(s, navigationMap(event))
        ELSE IF event.key = "Tab"
        THEN navigateCell(s, IF event.shiftKey THEN "left" ELSE "right")
        ELSE IF event.key \in {"Enter", "F2"} /\ s.focusedCell # NoCell
        THEN startEditing(s, s.focusedCell.rowIndex, s.focusedCell.columnId)
        ELSE IF s.focusedCell # NoCell /\ ~readOnly /\ event.key \in PrintableKeys /\ ~ctrl
        THEN startEditing(s, s.focusedCell.rowIndex, s.focusedCell.columnId)
        ELSE s

\* onGlobalKeyDown, the capturing keydown listener of the window, for an event
\* whose target is inside the grid: TRUE when it takes the event (and stops it).
onGlobalKeyDownTakes(event) ==
    (event.ctrlKey \/ event.metaKey) /\ ~event.shiftKey /\ event.key = "f"

\* A keydown event dispatched on the focused grid: the window's capturing
\* listener first, then (unless stopped) the grid's listener.
keydown(s, event) ==
    IF onGlobalKeyDownTakes(event) THEN [s EXCEPT !.searchOpen = ~@]
    ELSE handleKeyDown(s, event)

\* ---- meta callbacks that reach the host ----

\* meta.onRowsDelete(rowIndices)
metaOnRowsDelete(s, rowIndices) == [s EXCEPT !.emitted = @ \cup {"onRowsDelete"}]

\* meta.onPasteWithoutExpansion
onPasteWithoutExpansion(s) ==
    LET startPos == PasteStart(s)
        startColIndex == FindIndex(getNavigableColumns, startPos.columnId)
        s1 == performPaste(s, s.pasteDialog.clipboardText, startPos, startColIndex)
    IN  [s1 EXCEPT !.pasteDialog.open = FALSE]

\* A row the host appends when asked for more rows: every data column null.
BlankRow == [c \in DataColumns |-> NullValue]

\* meta.onPasteWithExpansion up to its await of onRowsAdd(rowsNeeded);
\* without onRowsAdd it only closes the dialog.
onPasteWithExpansion(s) ==
    IF onRowsAdd
    THEN [s EXCEPT !.expanding = Append(@, s.pasteDialog.rowsNeeded),
                   !.emitted = @ \cup {"onRowsAdd"}]
    ELSE [s EXCEPT !.pasteDialog.open = FALSE]

\* meta.onPasteWithExpansion after onRowsAdd resolved, with the paste
\* performed against the rows the table held before the host appended.
onPasteWithExpansionResumeStale(s) ==
    LET startPos == PasteStart(s)
        startColIndex == FindIndex(getNavigableColumns, startPos.columnId)
        s1 == performPaste(s, s.pasteDialog.clipboardText, startPos, startColIndex)
    IN  [s1 EXCEPT !.data = @ \o [i \in 1..Head(s.expanding) |-> BlankRow],
                   !.expanding = Tail(@),
                   !.pasteDialog.open = FALSE]

\* meta.onPasteWithExpansion after onRowsAdd resolved: the host has appended
\* the rows it was asked for and the table has taken the new data (the
\* $effect.pre that hands it to the table is flushed before the awaiting
\* code resumes); then the paste is performed and the dialog closed.
onPasteWithExpansionResume(s) ==
    LET grown == [s EXCEPT !.data = @ \o [i \in 1..Head(s.expanding) |-> BlankRow],
                           !.expanding = Tail(@)]
        startPos == PasteStart(grown)
        startColIndex == FindIndex(getNavigableColumns, startPos.columnId)
        s1 == performPaste(grown, grown.pasteDialog.clipboardText, startPos, startColIndex)
    IN  [s1 EXCEPT !.pasteDialog.open = FALSE]

\* meta.onPasteDialogOpenChange(open)
onPasteDialogOpenChange(s, open) == [s EXCEPT !.pasteDialog.open = open]

\* handleRowAdd: the host's onRowAdd appends a row and resolves with result
\* (NoCell for a void result; rowIndex NoRow / columnId <<>> for absent
\* fields); the grid then focuses the new row's cell.
handleRowAdd(s, result) ==
    LET added == [s EXCEPT !.data = Append(@, BlankRow), !.emitted = @ \cup {"onRowAdd"}]
        newRowIndex == IF result.rowIndex # NoRow THEN result.rowIndex ELSE Len(added.data)
        newColumnId == IF result.columnId # <<>> THEN result.columnId ELSE getFirstNavigableColumnId
    IN  IF result = NoCell THEN added
        ELSE IF newColumnId # <<>> THEN focusCell(added, newRowIndex, newColumnId, FALSE)
        ELSE added

\* ---- search ----

\* The test performSearch applies to the cell of row rowIndex and column columnId.
CellIncludes(s, rowIndex, columnId, lowerQuery) ==
    includes(textToLowerCase(StringOfValue(getValue(s, rowIndex, columnId))), lowerQuery)

\* The nested loop of performSearch from row rowIndex, column number colIndex
\* on: matches and searchMatchSet grow together, one cell at a time.
RECURSIVE SearchScan(_, _, _, _, _, _)
SearchScan(s, lowerQuery, rowIndex, colIndex, matches, matchSet) ==
    LET cols == getNavigableColumns
    IN  IF rowIndex >= RowsLength(s) THEN [matches |-> matches, matchSet |-> matchSet]
        ELSE IF colIndex >= Len(cols)
        THEN SearchScan(s, lowerQuery, rowIndex + 1, 0, matches, matchSet)
        ELSE LET columnId == cols[colIndex + 1]
             IN  IF CellIncludes(s, rowIndex, columnId, lowerQuery)
                 THEN SearchScan(s, lowerQuery, rowIndex, colIndex + 1,
                                 Append(matches, Pos(rowIndex, columnId)),
                                 matchSet \cup {getCellKey(rowIndex, columnId)})
                 ELSE SearchScan(s, lowerQuery, rowIndex, colIndex + 1, matches, matchSet)

\* The same loop testing the query as typed.
performSearchCaseSensitive(s, query) ==
    IF TrimIsEmpty(query)
    THEN [s EXCEPT !.searchMatches = <<>>, !.searchMatchSet = {}, !.matchIndex = 0]
    ELSE LET found == SearchScan(s, query, 0, 0, <<>>, {})
         IN  [s EXCEPT !.searchMatches = found.matches,
                       !.searchMatchSet = found.matchSet,
                       !.matchIndex = 0]

\* performSearch(query)
performSearch(s, query) ==
    IF TrimIsEmpty(query)
    THEN [s EXCEPT !.searchMatches = <<>>, !.searchMatchSet = {}, !.matchIndex = 0]
    ELSE LET found == SearchScan(s, textToLowerCase(query), 0, 0, <<>>, {})
         IN  [s EXCEPT !.searchMatches = found.matches,
                       !.searchMatchSet = found.matchSet,
                       !.matchIndex = 0]

\* navigateToNextMatch stepping without wrapping.
navigateToNextMatchUnwrapped(s) ==
    IF Len(s.searchMatches) = 0 THEN s
    ELSE [s EXCEPT !.matchIndex = s.matchIndex + 1]

\* navigateToNextMatch()
navigateToNextMatch(s) ==
    IF Len(s.searchMatches) = 0 THEN s
    ELSE [s EXCEPT !.matchIndex = (s.matchIndex + 1) % Len(s.searchMatches)]

\* navigateToPrevMatch()
navigateToPrevMatch(s) ==
    IF Len(s.searchMatches) = 0 THEN s
    ELSE [s EXCEPT !.matchIndex =
             (s.matchIndex - 1 + Len(s.searchMatches)) % Len(s.searchMatches)]

\* handleSearchOpenChange closing the bar without emptying the key set.
handleSearchOpenChangeKeepingSet(s, open) ==
    IF open THEN [s EXCEPT !.searchOpen = TRUE]
    ELSE [s EXCEPT !.searchOpen = FALSE, !.searchQuery = <<>>, !.searchMatches = <<>>,
                   !.matchIndex = 0]

\* handleSearchOpenChange(open)
handleSearchOpenChange(s, open) ==
    IF open THEN [s EXCEPT !.searchOpen = TRUE]
    ELSE [s EXCEPT !.searchOpen = FALSE, !.searchQuery = <<>>, !.searchMatches = <<>>,
                   !.searchMatchSet = {}, !.matchIndex = 0]

\* meta.onSortingChange / meta.onColumnFiltersChange with the new state
onSortingChange(s, updater) == [s EXCEPT !.sorting = updater]
onColumnFiltersChange(s, updater) == [s EXCEPT !.columnFilters = updater]

\* handleSearchQueryChange(query)
handleSearchQueryChange(s, query) == [s EXCEPT !.searchQuery = query]

\* ---- events and arguments of the environment ----

MouseEvent(button, ctrlKey, metaKey, shiftKey) ==
    [button |-> button, ctrlKey |-> ctrlKey, metaKey |-> metaKey, shiftKey |-> shiftKey]

CtrlMouse == MouseEvent(0, TRUE, FALSE, FALSE)
MetaMouse == MouseEvent(0, FALSE, TRUE, FALSE)
ShiftMouse == MouseEvent(0, FALSE, FALSE, TRUE)
RightMouse == MouseEvent(2, FALSE, FALSE, FALSE)

MouseEvents == {PlainMouse, CtrlMouse, MetaMouse, ShiftMouse, RightMouse}

KeyEvent(key, ctrlKey, metaKey, shiftKey) ==
    [key |-> key, ctrlKey |-> ctrlKey, metaKey |-> metaKey, shiftKey |-> shiftKey,
     altKey |-> FALSE]

PlainKey(key) == KeyEvent(key, FALSE, FALSE, FALSE)
ShiftKey(key) == KeyEvent(key, FALSE, FALSE, TRUE)
CtrlKey(key) == KeyEvent(key, TRUE, FALSE, FALSE)
MetaKey(key) == KeyEvent(key, FALSE, TRUE, FALSE)

\* Plain and Shift+ navigation keys, Tab and Shift+Tab, Ctrl+Home / Ctrl+End.
NavigationKeyEvents ==
    {PlainKey(k) : k \in NavigationKeys \cup {"Tab"}}
        \cup {ShiftKey(k) : k \in NavigationKeys \cup {"Tab"}}
        \cup {CtrlKey("Home"), CtrlKey("End")}

\* The plain arrow keys and Tab.
ArrowKeyEvents == {PlainKey(k) : k \in {"ArrowUp", "ArrowDown", "ArrowLeft", "ArrowRight", "Tab"}}

\* Enter, F2, Escape, Delete, Backspace and typed characters.
EditKeyEvents ==
    {PlainKey(k) : k \in {"Enter", "F2", "Escape", "Delete", "Backspace", "q", " "}}

\* The clipboard, select-all and search chords.
ChordKeyEvents ==
    {CtrlKey(k) : k \in {"a", "c", "f", "v", "x"}}
        \cup {MetaKey("f"), MetaKey("c"), KeyEvent("f", TRUE, FALSE, TRUE)}

KeyEvents == NavigationKeyEvents \cup EditKeyEvents \cup ChordKeyEvents

\* The cells the grid renders for pointer input: every row by every navigable
\* column (the row-select cell stops its own pointer events).
RenderedCells(rows) ==
    {Pos(r, getNavigableColumns[i]) : <<r, i>> \in (0..(rows - 1)) \X (1..Len(getNavigableColumns))}

\* Texts another application leaves on the clipboard.
ClipTexts ==
    {<<"7">>, <<"y", "\t", "8">>, <<"1", "\n", "2">>, <<" ">>}

\* ------------------------------------------------------------------------
\* Part 2: the DataGridStore class and createKeyboardHandler
\* ------------------------------------------------------------------------

\* A store after construction, setData(rows), setColumnOrder(order) and
\* setReadOnly(ro).
NewStore(rows, order, ro) ==
    [data |-> rows,
     columnOrder |-> order,
     focusedCell |-> NoCell,
     editingCell |-> NoCell,
     selectedCells |-> {},
     selectionRange |-> NoRange,
     isSelecting |-> FALSE,
     cutCells |-> {},
     readOnly |-> ro,
     searchOpen |-> FALSE,
     searchMatches |-> <<>>,
     matchIndex |-> 0,
     called |-> {}]

\* this._columnOrder.indexOf(columnId)
indexOf(order, columnId) == FindIndex(order, columnId)

\* this._columnOrder[i] for a 0-based i; <<"undefined">> when i names no entry.
Undefined == <<"u", "n", "d", "e", "f", "i", "n", "e", "d">>
OrderAt(order, i) == IF i >= 0 /\ i < Len(order) THEN order[i + 1] ELSE Undefined

setFocusedCell(st, position) == [st EXCEPT !.focusedCell = position]

moveFocus(st, direction) ==
    IF st.focusedCell = NoCell THEN st
    ELSE LET rowIndex == st.focusedCell.rowIndex
             columnId == st.focusedCell.columnId
             colIndex == indexOf(st.columnOrder, columnId)
         IN  CASE direction = "up" ->
                    IF rowIndex > 0
                    THEN [st EXCEPT !.focusedCell = Pos(rowIndex - 1, columnId)] ELSE st
               [] direction = "down" ->
                    IF rowIndex < Len(st.data) - 1
                    THEN [st EXCEPT !.focusedCell = Pos(rowIndex + 1, columnId)] ELSE st
               [] direction = "left" ->
                    IF colIndex > 0
                    THEN [st EXCEPT !.focusedCell = Pos(rowIndex, OrderAt(st.columnOrder, colIndex - 1))]
                    ELSE st
               [] direction = "right" ->
                    IF colIndex < Len(st.columnOrder) - 1
                    THEN [st EXCEPT !.focusedCell = Pos(rowIndex, OrderAt(st.columnOrder, colIndex + 1))]
                    ELSE st
               [] direction = "home" ->
                    [st EXCEPT !.focusedCell = Pos(rowIndex, OrderAt(st.columnOrder, 0))]
               [] direction = "end" ->
                    [st EXCEPT !.focusedCell =
                                 Pos(rowIndex, OrderAt(st.columnOrder, Len(st.columnOrder) - 1))]
               [] OTHER -> st

moveToFirstCell(st) ==
    IF Len(st.data) > 0 /\ Len(st.columnOrder) > 0
    THEN [st EXCEPT !.focusedCell = Pos(0, OrderAt(st.columnOrder, 0))]
    ELSE st

moveToLastCell(st) ==
    IF Len(st.data) > 0 /\ Len(st.columnOrder) > 0
    THEN [st EXCEPT !.focusedCell =
                        Pos(Len(st.data) - 1, OrderAt(st.columnOrder, Len(st.columnOrder) - 1))]
    ELSE st

DataGridStore_startEditing(st, position) ==
    IF st.readOnly THEN st
    ELSE [st EXCEPT !.editingCell = position, !.focusedCell = position]

DataGridStore_stopEditing(st) == [st EXCEPT !.editingCell = NoCell]

toggleCellSelection(st, cellKey) ==
    [st EXCEPT !.selectedCells = ToggleKey(@, cellKey)]

DataGridStore_selectRange(st, start, end) ==
    LET minRow == Min(start.rowIndex, end.rowIndex)
        maxRow == Max(start.rowIndex, end.rowIndex)
        startColIndex == indexOf(st.columnOrder, start.columnId)
        endColIndex == indexOf(st.columnOrder, end.columnId)
        minCol == Min(startColIndex, endColIndex)
        maxCol == Max(startColIndex, endColIndex)
    IN  [st EXCEPT !.selectionRange = [start |-> start, end |-> end],
                   !.selectedCells =
                       {getCellKey(row, OrderAt(st.columnOrder, col)) :
                           <<row, col>> \in (minRow..maxRow) \X (minCol..maxCol)}]

DataGridStore_selectAll(st) ==
    [st EXCEPT !.selectedCells =
        {getCellKey(row, st.columnOrder[i]) :
            <<row, i>> \in (0..(Len(st.data) - 1)) \X (1..Len(st.columnOrder))}]

DataGridStore_clearSelection(st) ==
    [st EXCEPT !.selectedCells = {}, !.selectionRange = NoRange]

markCellsAsCut(st) == [st EXCEPT !.cutCells = st.selectedCells]
clearCut(st) == [st EXCEPT !.cutCells = {}]
openSearch(st) == [st EXCEPT !.searchOpen = TRUE]
closeSearch(st) == [st EXCEPT !.searchOpen = FALSE, !.searchMatches = <<>>, !.matchIndex = 0]

\* setSearchMatches(matches)
setSearchMatches(st, matches) == [st EXCEPT !.searchMatches = matches, !.matchIndex = 0]

nextMatch(st) ==
    IF Len(st.searchMatches) > 0
    THEN LET newIndex == (st.matchIndex + 1) % Len(st.searchMatches)
         IN  setFocusedCell([st EXCEPT !.matchIndex = newIndex], st.searchMatches[newIndex + 1])
    ELSE st

previousMatch(st) ==
    IF Len(st.searchMatches) > 0
    THEN LET newIndex == IF st.matchIndex = 0 THEN Len(st.searchMatches) - 1
                         ELSE st.matchIndex - 1
         IN  setFocusedCell([st EXCEPT !.matchIndex = newIndex], st.searchMatches[newIndex + 1])
    ELSE st

\* ---- keyboard utilities ----

Binding(key, ctrl, meta, shift) ==
    [key |-> key, ctrl |-> ctrl, meta |-> meta, shift |-> shift, alt |-> FALSE]

\* DEFAULT_KEY_BINDINGS, in the order Object.entries lists it.
DEFAULT_KEY_BINDINGS ==
    << <<"navigate-up", <<Binding("ArrowUp", FALSE, FALSE, FALSE)>> >>,
       <<"navigate-down", <<Binding("ArrowDown", FALSE, FALSE, FALSE)>> >>,
       <<"navigate-left", <<Binding("ArrowLeft", FALSE, FALSE, FALSE),
                            Binding("Tab", FALSE, FALSE, TRUE)>> >>,
       <<"navigate-right", <<Binding("ArrowRight", FALSE, FALSE, FALSE),
                             Binding("Tab", FALSE, FALSE, FALSE)>> >>,
       <<"navigate-home", <<Binding("Home", FALSE, FALSE, FALSE)>> >>,
       <<"navigate-end", <<Binding("End", FALSE, FALSE, FALSE)>> >>,
       <<"navigate-first", <<Binding("Home", TRUE, FALSE, FALSE)>> >>,
       <<"navigate-last", <<Binding("End", TRUE, FALSE, FALSE)>> >>,
       <<"select-all", <<Binding("a", TRUE, FALSE, FALSE), Binding("a", FALSE, TRUE, FALSE)>> >>,
       <<"copy", <<Binding("c", TRUE, FALSE, FALSE), Binding("c", FALSE, TRUE, FALSE)>> >>,
       <<"cut", <<Binding("x", TRUE, FALSE, FALSE), Binding("x", FALSE, TRUE, FALSE)>> >>,
       <<"paste", <<Binding("v", TRUE, FALSE, FALSE), Binding("v", FALSE, TRUE, FALSE)>> >>,
       <<"delete", <<Binding("Delete", FALSE, FALSE, FALSE),
                     Binding("Backspace", FALSE, FALSE, FALSE)>> >>,
       <<"edit", <<Binding("Enter", FALSE, FALSE, FALSE), Binding("F2", FALSE, FALSE, FALSE)>> >>,
       <<"cancel", <<Binding("Escape", FALSE, FALSE, FALSE)>> >>,
       <<"search", <<Binding("f", TRUE, FALSE, FALSE), Binding("f", FALSE, TRUE, FALSE)>> >>,
       <<"next-match", <<Binding("F3", FALSE, FALSE, FALSE), Binding("g", TRUE, FALSE, FALSE),
                         Binding("g", FALSE, TRUE, FALSE)>> >>,
       <<"prev-match", <<Binding("F3", FALSE, FALSE, TRUE), Binding("g", TRUE, FALSE, TRUE),
                         Binding("g", FALSE, TRUE, TRUE)>> >>,
       <<"undo", <<Binding("z", TRUE, FALSE, FALSE), Binding("z", FALSE, TRUE, FALSE)>> >>,
       <<"redo", <<Binding("z", TRUE, FALSE, TRUE), Binding("z", FALSE, TRUE, TRUE),
                   Binding("y", TRUE, FALSE, FALSE), Binding("y", FALSE, TRUE, FALSE)>> >> >>

\* key.toLowerCase(), as the lower-case spelling of the key names in use;
\* a name without upper-case letters is its own lower case.
toLowerCase(key) ==
    CASE key = "ArrowUp" -> "arrowup"
      [] key = "ArrowDown" -> "arrowdown"
      [] key = "ArrowLeft" -> "arrowleft"
      [] key = "ArrowRight" -> "arrowright"
      [] key = "Home" -> "home"
      [] key = "End" -> "end"
      [] key = "PageUp" -> "pageup"
      [] key = "PageDown" -> "pagedown"
      [] key = "Tab" -> "tab"
      [] key = "Enter" -> "enter"
      [] key = "Escape" -> "escape"
      [] key = "Delete" -> "delete"
      [] key = "Backspace" -> "backspace"
      [] key = "F2" -> "f2"
      [] key = "F3" -> "f3"
      [] key = "A" -> "a"
      [] key = "C" -> "c"
      [] key = "F" -> "f"
      [] key = "G" -> "g"
      [] key = "V" -> "v"
      [] key = "X" -> "x"
      [] key = "Y" -> "y"
      [] key = "Z" -> "z"
      [] OTHER -> key

\* matchesKeyBinding, had it compared ctrl and meta one by one whatever the
\* binding requests, with no cross-platform branch.
matchesKeyBindingExactModifiers(event, binding) ==
    /\ toLowerCase(event.key) = toLowerCase(binding.key)
    /\ event.ctrlKey = binding.ctrl
    /\ event.metaKey = binding.meta
    /\ event.shiftKey = binding.shift
    /\ event.altKey = binding.alt

\* matchesKeyBinding, had it not compared the shift key.
matchesKeyBindingIgnoringShift(event, binding) ==
    /\ toLowerCase(event.key) = toLowerCase(binding.key)
    /\ event.altKey = binding.alt
    /\ IF binding.ctrl \/ binding.meta
       THEN event.ctrlKey \/ event.metaKey
       ELSE ~event.ctrlKey /\ ~event.metaKey

matchesKeyBinding(event, binding) ==
    LET keyMatches == toLowerCase(event.key) = toLowerCase(binding.key)
        ctrlMatches == IF binding.ctrl THEN event.ctrlKey ELSE ~event.ctrlKey
        metaMatches == IF binding.meta THEN event.metaKey ELSE ~event.metaKey
        shiftMatches == IF binding.shift THEN event.shiftKey ELSE ~event.shiftKey
        altMatches == IF binding.alt THEN event.altKey ELSE ~event.altKey
    IN  IF binding.ctrl \/ binding.meta
        THEN keyMatches /\ (event.ctrlKey \/ event.metaKey) /\ shiftMatches /\ altMatches
        ELSE keyMatches /\ ctrlMatches /\ metaMatches /\ shiftMatches /\ altMatches

\* The first action, at or after entry i of the table, one of whose bindings
\* matches; "" for null.
RECURSIVE FirstMatchingAction(_, _)
FirstMatchingAction(event, i) ==
    IF i > Len(DEFAULT_KEY_BINDINGS) THEN ""
    ELSE IF \E j \in 1..Len(DEFAULT_KEY_BINDINGS[i][2]) :
                matchesKeyBinding(event, DEFAULT_KEY_BINDINGS[i][2][j])
    THEN DEFAULT_KEY_BINDINGS[i][1]
    ELSE FirstMatchingAction(event, i + 1)

getKeyboardAction(event) == FirstMatchingAction(event, 1)

\* The keys of the bindings of DEFAULT_KEY_BINDINGS.
BoundKeys ==
    {DEFAULT_KEY_BINDINGS[i][2][j].key :
        <<i, j>> \in {<<i, j>> \in (1..Len(DEFAULT_KEY_BINDINGS)) \X (1..4) :
                         j <= Len(DEFAULT_KEY_BINDINGS[i][2])}}

\* The keyboard events at hand: every bound key, the upper-case letter a
\* held Shift or Caps Lock reports for the bound letters, and a key that no
\* binding names, each under every combination of the four modifiers.
ChordKeys == BoundKeys \cup {"A", "C", "F", "G", "V", "X", "Y", "Z", "q"}

AllKeyEvents ==
    {[key |-> key, ctrlKey |-> ctrlKey, metaKey |-> metaKey, shiftKey |-> shiftKey,
      altKey |-> altKey] :
        <<key, ctrlKey, metaKey, shiftKey, altKey>> \in
            ChordKeys \X BOOLEAN \X BOOLEAN \X BOOLEAN \X BOOLEAN}

\* KeyBinding values: a key and any of the optional ctrl, meta, shift and
\* alt, an absent modifier being falsy.
KeyBindings ==
    {[key |-> key, ctrl |-> ctrl, meta |-> meta, shift |-> shift, alt |-> alt] :
        <<key, ctrl, meta, shift, alt>> \in
            {"c", "Tab"} \X BOOLEAN \X BOOLEAN \X BOOLEAN \X BOOLEAN}

\* The events matchesKeyBinding is called on: the keys of those bindings, the
\* upper-case C, and a key that none of them names.
MatchedKeyEvents == {event \in AllKeyEvents : event.key \in {"c", "C", "Tab", "q"}}

\* One of the options callbacks (onCopy, onCut, ...) is invoked.
Call(st, callback) == [st EXCEPT !.called = @ \cup {callback}]

\* event.key.length === 1
IsOneCharKey(key) == key \in PrintableKeys \cup {"A", "F", "Z", "g", "y", "z"}

\* The switch of handleKeydown, reached when the store is not editing.
dispatchAction(st, action, event) ==
    CASE action = "navigate-up" ->
            IF event.shiftKey /\ st.focusedCell # NoCell /\ st.selectionRange # NoRange
            THEN DataGridStore_selectRange(st, st.selectionRange.start,
                     Pos(Max(0, st.selectionRange.end.rowIndex - 1), st.selectionRange.end.columnId))
            ELSE moveFocus(st, "up")
      [] action = "navigate-down" ->
            IF event.shiftKey /\ st.focusedCell # NoCell /\ st.selectionRange # NoRange
            THEN DataGridStore_selectRange(st, st.selectionRange.start,
                     Pos(Min(Len(st.data) - 1, st.selectionRange.end.rowIndex + 1),
                         st.selectionRange.end.columnId))
            ELSE moveFocus(st, "down")
      [] action = "navigate-left" -> moveFocus(st, "left")
      [] action = "navigate-right" -> moveFocus(st, "right")
      [] action = "navigate-home" -> moveFocus(st, "home")
      [] action = "navigate-end" -> moveFocus(st, "end")
      [] action = "navigate-first" -> moveToFirstCell(st)
      [] action = "navigate-last" -> moveToLastCell(st)
      [] action = "select-all" -> DataGridStore_selectAll(st)
      [] action = "copy" -> Call(st, "onCopy")
      [] action = "cut" -> IF ~st.readOnly THEN Call(markCellsAsCut(st), "onCut") ELSE st
      [] action = "paste" -> IF ~st.readOnly THEN Call(st, "onPaste") ELSE st
      [] action = "delete" -> IF ~st.readOnly THEN Call(st, "onDelete") ELSE st
      [] action = "edit" ->
            IF ~st.readOnly /\ st.focusedCell # NoCell
            THEN DataGridStore_startEditing(st, st.focusedCell) ELSE st
      [] action = "cancel" ->
            IF st.searchOpen THEN closeSearch(st)
            ELSE clearCut(DataGridStore_clearSelection(st))
      [] action = "search" -> openSearch(st)
      [] action = "next-match" -> nextMatch(st)
      [] action = "prev-match" -> previousMatch(st)
      [] action = "undo" -> Call(st, "onUndo")
      [] action = "redo" -> Call(st, "onRedo")
      [] OTHER -> st

\* The handler createKeyboardHandler(store, options) returns, with every
\* option callback supplied.
handleKeydown(st0, event) ==
    LET st == [st0 EXCEPT !.called = {}]
        action == getKeyboardAction(event)
    IN  IF action = ""
        THEN IF IsOneCharKey(event.key) /\ ~event.ctrlKey /\ ~event.metaKey /\ ~event.altKey
                  /\ st.focusedCell # NoCell /\ st.editingCell = NoCell /\ ~st.readOnly
             THEN DataGridStore_startEditing(st, st.focusedCell)
             ELSE st
        ELSE IF st.editingCell # NoCell
        THEN IF action = "cancel" THEN DataGridStore_stopEditing(st) ELSE st
        ELSE dispatchAction(st, action, event)

\* ---- clipboard utilities over the store ----

\* The getCellValue callback a caller hands to the utilities: the store's data.
StoreCellValue(st, rowIndex, columnId) ==
    IF rowIndex >= 0 /\ rowIndex < Len(st.data) /\ columnId \in DOMAIN st.data[rowIndex + 1]
    THEN st.data[rowIndex + 1][columnId]
    ELSE NullValue

formatCellValue(value) ==
    IF value.type = "null" THEN <<>>
    ELSE IF value.type = "number" THEN IntToStr(value.val)
    ELSE value.val

\* getSelectedCellValues(store, getCellValue).rows
getSelectedCellValues(st) ==
    LET positions == {parseCellKey(k) : k \in st.selectedCells}
        rowsOf == {p.rowIndex : p \in positions}
        colsOf == {indexOf(st.columnOrder, p.columnId) : p \in positions} \ {-1}
        minRow == CHOOSE r \in rowsOf : \A q \in rowsOf : r <= q
        maxRow == CHOOSE r \in rowsOf : \A q \in rowsOf : r >= q
        width == IF colsOf = {} THEN 0
                 ELSE (CHOOSE c \in colsOf : \A q \in colsOf : c >= q)
                          - (CHOOSE c \in colsOf : \A q \in colsOf : c <= q) + 1
        minCol == IF colsOf = {} THEN 0 ELSE CHOOSE c \in colsOf : \A q \in colsOf : c <= q
    IN  IF st.selectedCells = {} THEN <<>>
        ELSE [i \in 1..(maxRow - minRow + 1) |->
                 [j \in 1..width |->
                     formatCellValue(StoreCellValue(st, minRow + i - 1,
                                                    OrderAt(st.columnOrder, minCol + j - 1)))]]

\* formatClipboardText(rows)
formatClipboardText(rows) ==
    Join([i \in 1..Len(rows) |-> Join(rows[i], "\t")], "\n")

\* The text copyToClipboard writes, when it writes one.
copyToClipboardText(st) == formatClipboardText(getSelectedCellValues(st))

\* Keys delivered to the store's handler: navigation, editing and clipboard
\* keys, chords only the binding table knows (F3, g, z, y), upper-case
\* letters and an Alt chord.
StoreKeyEvents ==
    {PlainKey(k) : k \in NavigationKeys \cup {"Tab", "Enter", "Escape", "Delete", "q", "F3"}}
        \cup {ShiftKey(k) : k \in {"Tab", "ArrowUp", "ArrowDown", "F3", "A"}}
        \cup {CtrlKey(k) : k \in {"Home", "End", "a", "c", "v", "f", "g", "z", "y"}}
        \cup {MetaKey("c"), KeyEvent("F", TRUE, FALSE, TRUE), [PlainKey("q") EXCEPT !.altKey = TRUE]}

\* ------------------------------------------------------------------------
\* Part 4: the file cell
\* ------------------------------------------------------------------------

\* fileCellOpts.maxFiles ?? 10
maxFiles == 10

\* A file cell as mounted on an empty cell value, with its popover open (the
\* effect that copies the cell value into files runs only while the cell is
\* not edited). A file is [id, name, url]; url tells whether it has one.
\* pending holds the addFiles calls that await the host's onFilesUpload, each
\* with the filesWithTemp and tempFiles it captured; called holds the host
\* callbacks the last operation invoked; value is the value onDataUpdate got
\* last; nextId numbers the ids crypto.randomUUID() hands out.
NewFileCell ==
    [files |-> <<>>, uploadingFiles |-> {}, pending |-> {}, nextId |-> 1,
     called |-> {}, value |-> <<>>]

FileIds(list) == {list[i].id : i \in 1..Len(list)}

\* addFiles(newFiles) for files named names that pass validateFile, up to its
\* await of meta.onFilesUpload.
addFiles(fc, names) ==
    LET tempFiles == [i \in 1..Len(names) |->
                         [id |-> fc.nextId + i - 1, name |-> names[i], url |-> FALSE]]
        filesWithTemp == fc.files \o tempFiles
    IN  IF Len(fc.files) + Len(names) > maxFiles THEN [fc EXCEPT !.called = {}]
        ELSE IF Len(names) = 0 THEN [fc EXCEPT !.called = {}]
        ELSE [fc EXCEPT !.files = filesWithTemp,
                        !.uploadingFiles = FileIds(tempFiles),
                        !.pending = @ \cup {[filesWithTemp |-> filesWithTemp,
                                            tempFiles |-> tempFiles]},
                        !.nextId = @ + Len(names),
                        !.called = {"onFilesUpload"}]

\* What the host's onFilesUpload resolves with: one stored file per uploaded
\* file, under the same name, with a url and an id of the host's own.
UploadedFiles(upload) ==
    [i \in 1..Len(upload.tempFiles) |->
        [id |-> 0 - upload.tempFiles[i].id, name |-> upload.tempFiles[i].name, url |-> TRUE]]

\* filesWithTemp.map(...).filter((f) => f.url !== undefined)
FinalFiles(upload, uploadedFiles) ==
    LET uploadingIds == FileIds(upload.tempFiles)
        found(f) == {k \in 1..Len(uploadedFiles) : uploadedFiles[k].name = f.name}
        first(f) == CHOOSE k \in found(f) : \A j \in found(f) : k <= j
        mapped == [i \in 1..Len(upload.filesWithTemp) |->
                      LET f == upload.filesWithTemp[i]
                      IN  IF f.id \in uploadingIds /\ found(f) # {}
                          THEN uploadedFiles[first(f)] ELSE f]
    IN  SelectSeq(mapped, LAMBDA f : f.url)

\* addFiles keeping the placeholders of its batch when the upload fails.
addFilesCatchKeepingPlaceholders(fc, upload) ==
    [fc EXCEPT !.uploadingFiles = {}, !.pending = @ \ {upload}, !.called = {}]

\* addFiles after onFilesUpload rejected: the catch block.
addFilesCatch(fc, upload) ==
    LET uploadingIds == FileIds(upload.tempFiles)
    IN  [fc EXCEPT !.files = SelectSeq(@, LAMBDA f : f.id \notin uploadingIds),
                   !.uploadingFiles = {},
                   !.pending = @ \ {upload},
                   !.called = {}]

\* addFiles after onFilesUpload resolved with uploadedFiles.
addFilesResume(fc, upload, uploadedFiles) ==
    LET finalFiles == FinalFiles(upload, uploadedFiles)
    IN  [fc EXCEPT !.files = finalFiles,
                   !.uploadingFiles = {},
                   !.pending = @ \ {upload},
                   !.called = {"onDataUpdate"},
                   !.value = finalFiles]

\* ------------------------------------------------------------------------
\* Initial states
\* ------------------------------------------------------------------------

\* useDataGrid({ data, readOnly, onRowsAdd, autoFocus, ... }) over n rows, as
\* constructed: nothing focused, edited or selected.
HookInitWith(initialData, ro, rowsAdd, dataChange, autoFocus) ==
    /\ data = initialData
    /\ onDataChange = dataChange
    /\ clipboard = <<>>
    /\ readOnly = ro
    /\ onRowsAdd = rowsAdd
    /\ autoFocusPending = autoFocus
    /\ focusedCell = NoCell
    /\ editingCell = NoCell
    /\ selectionState = EmptySelection
    /\ selectionAnchor = NoCell
    /\ cutCells = {}
    /\ searchOpen = FALSE
    /\ searchQuery = <<>>
    /\ searchMatches = <<>>
    /\ matchIndex = 0
    /\ searchMatchSet = {}
    /\ sorting = <<>>
    /\ columnFilters = <<>>
    /\ pasteDialog = ClosedPasteDialog
    /\ pastePending = 0
    /\ expanding = <<>>
    /\ rowSelection = {}
    /\ lastClickedRowIndex = NoRow
    /\ emitted = {}
    /\ keyPosition = NoCell
    /\ keyText = <<>>
    /\ parsedKey = NoCell
    /\ debounceTimer = <<>>
    /\ cellMapRef = {}
    /\ focusAttempts = <<>>
    /\ activeElement = <<>>
    /\ fileCell = NewFileCell
    /\ keyboard = <<>>

HookInit(n, ro, rowsAdd, dataChange, autoFocus) ==
    HookInitWith(InitialData(n), ro, rowsAdd, dataChange, autoFocus)

StoreInit(n, ro) == store = NewStore(InitialData(n), getNavigableColumns, ro)

Init ==
    /\ \E n \in 0..MaxRows, ro \in BOOLEAN, rowsAdd \in BOOLEAN, dataChange \in BOOLEAN :
          HookInit(n, ro, rowsAdd, dataChange, TRUE)
    /\ \E n \in 0..MaxRows, ro \in BOOLEAN : StoreInit(n, ro)

\* ------------------------------------------------------------------------
\* Actions of the hook
\* ------------------------------------------------------------------------

\* A handler of the hook ran to completion and left the state s.
HookStep(s) ==
    Commit(s) /\ UNCHANGED <<readOnly, onRowsAdd, onDataChange, autoFocusPending, store, keyVars,
                             debounceTimer, domVars, fileCell, keyboard>>

\* The auto-focus microtask queued on mount.
AutoFocus ==
    /\ autoFocusPending
    /\ autoFocusPending' = FALSE
    /\ Commit(focusCell(Cur, 0, getFirstNavigableColumnId, FALSE))
    /\ UNCHANGED <<readOnly, onRowsAdd, onDataChange, store, keyVars, debounceTimer, domVars, fileCell, keyboard>>

\* attemptFocus(attempts) for the cell of attempt, run by an animation frame
\* with the callbacks in queue still waiting: the element is focused when it
\* is mounted, else the attempt is queued again, up to three times.
attemptFocus(attempt, mounted, queue, active) ==
    IF attempt.cellKey \in mounted
    THEN [focusAttempts |-> queue, activeElement |-> attempt.cellKey]
    ELSE IF attempt.attempts < 3
    THEN [focusAttempts |-> Append(queue, [cellKey |-> attempt.cellKey,
                                           attempts |-> attempt.attempts + 1]),
          activeElement |-> active]
    ELSE [focusAttempts |-> queue, activeElement |-> active]

\* focusCell(rowIndex, columnId) with its request for an animation frame; at
\* most MaxFocusAttempts callbacks wait at a time.
FocusCellThenFrame ==
    \E p \in RenderedCells(rowCount) :
        /\ Len(focusAttempts) < MaxFocusAttempts
        /\ Commit(focusCell(Cur, p.rowIndex, p.columnId, FALSE))
        /\ focusAttempts' = Append(focusAttempts,
                                   [cellKey |-> getCellKey(p.rowIndex, p.columnId), attempts |-> 0])
        /\ UNCHANGED <<readOnly, onRowsAdd, onDataChange, autoFocusPending, store, keyVars,
                       debounceTimer, cellMapRef, activeElement, fileCell, keyboard>>

\* An animation frame runs the oldest waiting attemptFocus callback.
AnimationFrame ==
    /\ focusAttempts # <<>>
    /\ LET after == attemptFocus(Head(focusAttempts), cellMapRef, Tail(focusAttempts), activeElement)
       IN  /\ focusAttempts' = after.focusAttempts
           /\ activeElement' = after.activeElement
    /\ UNCHANGED <<hookVars, store, keyVars, debounceTimer, cellMapRef, fileCell, keyboard>>

\* The virtualizer renders a cell (its element registers in cellMapRef) or
\* drops one (an element that leaves the document loses the focus).
CellMount ==
    \E p \in RenderedCells(rowCount) :
        /\ getCellKey(p.rowIndex, p.columnId) \notin cellMapRef
        /\ cellMapRef' = cellMapRef \cup {getCellKey(p.rowIndex, p.columnId)}
        /\ UNCHANGED <<hookVars, store, keyVars, debounceTimer, focusAttempts, activeElement, fileCell, keyboard>>

CellUnmount ==
    \E cellKey \in cellMapRef :
        /\ cellMapRef' = cellMapRef \ {cellKey}
        /\ activeElement' = IF activeElement = cellKey THEN <<>> ELSE activeElement
        /\ UNCHANGED <<hookVars, store, keyVars, debounceTimer, focusAttempts, fileCell, keyboard>>

\* focusCell(rowIndex, columnId), as returned to the host.
FocusCell == \E p \in RenderedCells(rowCount) : HookStep(focusCell(Cur, p.rowIndex, p.columnId, FALSE))

\* meta.onCellEditingStart / meta.onCellDoubleClick
StartEditing == \E p \in RenderedCells(rowCount) : HookStep(startEditing(Cur, p.rowIndex, p.columnId))

\* meta.onCellEditingStop(opts), as the cell editors call it.
StopEditing ==
    \E opts \in {NoOpts, [direction |-> "right", moveToNextRow |-> FALSE],
                 [direction |-> "left", moveToNextRow |-> FALSE],
                 [direction |-> "", moveToNextRow |-> TRUE]} :
        HookStep(stopEditing(Cur, opts))

\* meta.onCellClick
SelectCell ==
    \E p \in RenderedCells(rowCount), e \in MouseEvents :
        HookStep(selectCell(Cur, p.rowIndex, p.columnId, e))

\* selectRange(start, end), selectAll() and clearSelection(), as returned to the host.
SelectRange ==
    \E a \in RenderedCells(rowCount), b \in RenderedCells(rowCount) :
        HookStep(selectRange(Cur, a, b, FALSE))

SelectAll == HookStep(selectAll(Cur))

ClearSelection == HookStep(clearSelection(Cur))

\* A cell wrapper's mousedown / mouseenter / mouseup; the wrapper of the cell
\* being edited ignores pointer input.
CellMouseDown ==
    \E p \in RenderedCells(rowCount), e \in MouseEvents :
        /\ p # editingCell
        /\ HookStep(onCellMouseDown(Cur, p.rowIndex, p.columnId, e))

\* A ctrl-click: the way a sparse selection is built.
CtrlCellMouseDown ==
    \E p \in RenderedCells(rowCount) :
        /\ p # editingCell
        /\ HookStep(onCellMouseDown(Cur, p.rowIndex, p.columnId, CtrlMouse))

\* A mousedown without modifier keys.
PlainCellMouseDown ==
    \E p \in RenderedCells(rowCount) :
        /\ p # editingCell
        /\ HookStep(onCellMouseDown(Cur, p.rowIndex, p.columnId, PlainMouse))

CellMouseEnter ==
    \E p \in RenderedCells(rowCount) :
        /\ p # editingCell
        /\ HookStep(onCellMouseEnter(Cur, p.rowIndex, p.columnId))

CellMouseUp == HookStep(onCellMouseUp(Cur))

\* A keydown inside the grid; at most MaxPendingPastes clipboard reads are
\* left in flight.
KeyDown(e) ==
    /\ keydown(Cur, e).pastePending <= MaxPendingPastes
    /\ HookStep(keydown(Cur, e))

NavigationKeyDown == \E e \in NavigationKeyEvents : KeyDown(e)
ArrowKeyDown == \E e \in ArrowKeyEvents : KeyDown(e)
EditKeyDown == \E e \in EditKeyEvents : KeyDown(e)
ChordKeyDown == \E e \in ChordKeyEvents : KeyDown(e)
ShiftNavigationKeyDown == \E k \in NavigationKeys : KeyDown(ShiftKey(k))
PasteKeyDown == KeyDown(CtrlKey("v"))

\* meta.onRowSelect, from a row-select checkbox.
RowSelect ==
    \E r \in 0..(rowCount - 1), selected \in BOOLEAN, shiftKey \in BOOLEAN :
        HookStep(onRowSelect(Cur, r, selected, shiftKey))

\* The same, from the checkbox of the first row only.
FirstRowSelect ==
    \E selected \in BOOLEAN, shiftKey \in BOOLEAN :
        /\ rowCount > 0
        /\ HookStep(onRowSelect(Cur, 0, selected, shiftKey))

\* meta.onCellsCopy / meta.onCellsCut, from the context menu.
CellsCopy == HookStep(copySelectedCells(Cur))
CellsCut == HookStep(cutSelectedCells(Cur))

\* Another application writes the clipboard.
ClipboardWrite == \E text \in ClipTexts : HookStep([Cur EXCEPT !.clipboard = text])

\* Another application writes a text that ends, or does not end, with a line
\* terminator.
UnterminatedTexts == {<<"7">>, <<"y", "\t", "8">>}

TerminatedTexts == {text \o <<"\n">> : text \in UnterminatedTexts}

TerminatedClipboardWrite ==
    \E text \in UnterminatedTexts \cup TerminatedTexts :
        HookStep([Cur EXCEPT !.clipboard = text])

\* navigator.clipboard.readText() settles for a pending paste: it resolves
\* with the clipboard's text or rejects.
PasteResolve ==
    /\ pastePending > 0
    /\ HookStep(pasteFromClipboardResume(Cur, clipboard))

PasteReject ==
    /\ pastePending > 0
    /\ HookStep(pasteFromClipboardCatch(Cur))

\* The paste dialog: opened or dismissed (meta.onPasteDialogOpenChange), and
\* its Continue button with either choice.
PasteDialogOpenChange == \E open \in BOOLEAN : HookStep(onPasteDialogOpenChange(Cur, open))

PasteWithExpansion ==
    /\ pasteDialog.open
    /\ Len(expanding) < MaxPendingExpansions
    /\ rowCount + pasteDialog.rowsNeeded <= MaxRows
    /\ HookStep(onPasteWithExpansion(Cur))

\* The promise of the host's onRowsAdd settles: it resolves once the host has
\* appended the rows, or rejects and leaves the handler unfinished.
PasteExpansionResolve ==
    /\ expanding # <<>>
    /\ rowCount + Head(expanding) <= MaxRows
    /\ HookStep(onPasteWithExpansionResume(Cur))

PasteExpansionReject ==
    /\ expanding # <<>>
    /\ HookStep([Cur EXCEPT !.expanding = Tail(@)])

PasteWithoutExpansion ==
    /\ pasteDialog.open
    /\ HookStep(onPasteWithoutExpansion(Cur))

\* meta.onRowsDelete(rowIndices), from the context menu's "Delete rows": the
\* host's onRowsDelete removes the rows.
RowsDelete ==
    \E r \in 0..(rowCount - 1) :
        HookStep([metaOnRowsDelete(Cur, {r}) EXCEPT
                      !.data = [i \in 1..(rowCount - 1) |-> IF i <= r THEN data[i] ELSE data[i + 1]]])

\* The add-row button.
RowAdd ==
    /\ rowCount < MaxRows
    /\ \E result \in {NoCell, Pos(NoRow, <<>>), Pos(rowCount, <<>>)} :
          HookStep(handleRowAdd(Cur, result))

\* meta.onDataUpdate, from a cell editor committing a value.
DataUpdate ==
    \E p \in RenderedCells(rowCount), v \in {NullValue, Str(<<"y">>), Num(7)} :
        HookStep(handleDataUpdate(Cur, <<[rowIndex |-> p.rowIndex, columnId |-> p.columnId,
                                          value |-> v]>>))

\* A cell editor of the first data column commits a text or clears the cell.
FirstColumnUpdate ==
    \E r \in 0..(rowCount - 1), v \in {NullValue, Str(<<"y">>)} :
        HookStep(handleDataUpdate(Cur, <<[rowIndex |-> r, columnId |-> ColA, value |-> v]>>))

\* The batches of one or two cell updates a cell editor or the host sends.
UpdateBatches(rows) ==
    LET single == {[rowIndex |-> p.rowIndex, columnId |-> p.columnId, value |-> v] :
                      p \in RenderedCells(rows), v \in {NullValue, Str(<<"y">>), Num(7)}}
    IN  {<<u>> : u \in single} \cup {<<u, w>> : u \in single, w \in single}

DataUpdateBatch ==
    \E updates \in UpdateBatches(rowCount) : HookStep(handleDataUpdate(Cur, updates))

\* A column header sorts by column b, descending, or clears the sort.
SortingChange ==
    \E updater \in {<<>>, <<[id |-> ColB, desc |-> TRUE]>>} :
        HookStep(onSortingChange(Cur, updater))

\* The filter menu keeps the rows whose column a holds "y", or clears the filter.
ColumnFiltersChange ==
    \E updater \in {<<>>, <<[id |-> ColA, value |-> <<"y">>]>>} :
        HookStep(onColumnFiltersChange(Cur, updater))

\* The search bar is opened or closed through its own controls.
SearchOpenChange == \E open \in BOOLEAN : HookStep(handleSearchOpenChange(Cur, open))

\* The queries typed into the search bar: empty, blank, one letter in either
\* case, a digit, two letters, and a text no cell holds.
SearchQueries ==
    {<<>>, <<" ">>, <<"x">>, <<"X">>, <<"Y">>, <<"1">>, <<"x", "Y">>, <<"q">>}

\* The search input changes: the query is recorded at once.
SearchQueryChange == \E q \in SearchQueries : HookStep(handleSearchQueryChange(Cur, q))

\* The debounce timer of the search input fires with the query it was armed with.
Search == \E q \in SearchQueries : HookStep(performSearch(Cur, q))

\* debouncedSearch arming a timer without cancelling the pending ones.
debouncedSearchWithoutCancel(pending, query) == Append(pending, query)

\* debouncedSearch(query) over the timers that are pending: clearTimeout on
\* the pending one, then setTimeout with the new query.
debouncedSearch(pending, query) == <<query>>

\* The search input's onChange while the search bar is shown: the query is
\* recorded at once and the debounce timer is re-armed with it.
SearchInputChangeTo(queries) ==
    \E q \in queries :
        /\ searchOpen
        /\ Commit(handleSearchQueryChange(Cur, q))
        /\ debounceTimer' = debouncedSearch(debounceTimer, q)
        /\ UNCHANGED <<readOnly, onRowsAdd, onDataChange, autoFocusPending, store, keyVars, domVars, fileCell, keyboard>>

SearchInputChange == SearchInputChangeTo(SearchQueries)

\* The same, typing a letter or a digit some cell holds.
ShortSearchInputChange == SearchInputChangeTo({<<"x">>, <<"1">>})

\* The armed debounce timer fires: onSearch(query) with the query it holds.
DebouncedSearch ==
    /\ debounceTimer # <<>>
    /\ Commit(performSearch(Cur, Head(debounceTimer)))
    /\ debounceTimer' = Tail(debounceTimer)
    /\ UNCHANGED <<readOnly, onRowsAdd, onDataChange, autoFocusPending, store, keyVars, domVars, fileCell, keyboard>>

\* Ctrl/Cmd+F or Escape pressed inside the grid.
SearchKeyDown == \E e \in {CtrlKey("f"), MetaKey("f"), PlainKey("Escape")} : KeyDown(e)

NavigateToNextMatch == HookStep(navigateToNextMatch(Cur))
NavigateToPrevMatch == HookStep(navigateToPrevMatch(Cur))

\* ------------------------------------------------------------------------
\* Actions of the file cell
\* ------------------------------------------------------------------------

FileCellStep(fc) ==
    fileCell' = fc /\ UNCHANGED <<hookVars, store, keyVars, debounceTimer, domVars, keyboard>>

\* The batches of files dropped on the cell.
FileBatches == {<<"p">>, <<"q">>, <<"p", "q">>}

\* Files are dropped on the cell or picked in its file input; at most
\* MaxUploads uploads are awaited at once and MaxFileIds ids handed out.
FilesAdd ==
    \E names \in FileBatches :
        /\ Cardinality(fileCell.pending) < MaxUploads
        /\ fileCell.nextId + Len(names) - 1 <= MaxFileIds
        /\ FileCellStep(addFiles(fileCell, names))

\* The host's onFilesUpload settles for one of the awaited uploads.
FilesUploadResolve ==
    \E upload \in fileCell.pending :
        FileCellStep(addFilesResume(fileCell, upload, UploadedFiles(upload)))

FilesUploadReject ==
    \E upload \in fileCell.pending : FileCellStep(addFilesCatch(fileCell, upload))

\* ------------------------------------------------------------------------
\* Actions of the store
\* ------------------------------------------------------------------------

\* ---- Actions of the keyboard utilities ----

KeyboardStep(k) ==
    keyboard' = k /\ UNCHANGED <<hookVars, store, keyVars, debounceTimer, domVars, fileCell>>

\* matchesKeyBinding(event, binding) is called.
MatchesKeyBindingCall ==
    \E event \in MatchedKeyEvents, binding \in KeyBindings :
        KeyboardStep(<<"matchesKeyBinding", event, binding, matchesKeyBinding(event, binding)>>)

\* getKeyboardAction(event) is called, with the default bindings.
GetKeyboardActionCall ==
    \E event \in AllKeyEvents :
        KeyboardStep(<<"getKeyboardAction", event, getKeyboardAction(event)>>)

StoreStep(st) == store' = st /\ UNCHANGED <<hookVars, keyVars, debounceTimer, domVars, fileCell, keyboard>>

\* The cells of the store's grid.
StoreCells ==
    {Pos(r, store.columnOrder[i]) :
        <<r, i>> \in (0..(Len(store.data) - 1)) \X (1..Len(store.columnOrder))}

StoreKeydown == \E e \in StoreKeyEvents : StoreStep(handleKeydown(store, e))

StoreTabKeydown ==
    \E e \in {PlainKey("Tab"), ShiftKey("Tab")} : StoreStep(handleKeydown(store, e))

StoreSetFocusedCell ==
    \E p \in StoreCells \cup {NoCell} : StoreStep(setFocusedCell([store EXCEPT !.called = {}], p))

StoreStartEditing ==
    \E p \in StoreCells : StoreStep(DataGridStore_startEditing([store EXCEPT !.called = {}], p))

StoreStopEditing == StoreStep(DataGridStore_stopEditing([store EXCEPT !.called = {}]))

StoreSelectRange ==
    \E a \in StoreCells, b \in StoreCells :
        StoreStep(DataGridStore_selectRange([store EXCEPT !.called = {}], a, b))

StoreToggleCellSelection ==
    \E p \in StoreCells :
        StoreStep(toggleCellSelection([store EXCEPT !.called = {}],
                                      getCellKey(p.rowIndex, p.columnId)))

\* copyToClipboard(store, getCellValue): writes the clipboard unless nothing
\* is selected.
StoreCopyToClipboard ==
    /\ getSelectedCellValues(store) # <<>>
    /\ clipboard' = copyToClipboardText(store)
    /\ emitted' = {}
    /\ store' = [store EXCEPT !.called = {}]
    /\ UNCHANGED <<data, readOnly, onRowsAdd, onDataChange, autoFocusPending, focusedCell,
                   editingCell, selectionState, selectionAnchor, cutCells, searchOpen,
                   searchQuery, searchMatches, matchIndex, searchMatchSet,
                   sorting, columnFilters, pasteDialog, pastePending, expanding, rowSelection, lastClickedRowIndex,
                   keyVars, debounceTimer, domVars, fileCell, keyboard>>

\* ------------------------------------------------------------------------
\* Actions of a caller of the cell key utilities
\* ------------------------------------------------------------------------

\* The column ids keys are made of: the grid's own, one with a digit, one of
\* digits only, the empty id and one with a colon in it.
KeyColumnIds ==
    {ColSelect, ColA, ColB, <<"b", "2">>, <<"7">>, <<>>, <<"a", ":", "b">>}

\* getCellKey(rowIndex, columnId) is called.
CellKeyMake ==
    \E rowIndex \in 0..MaxKeyRow, columnId \in KeyColumnIds :
        /\ keyPosition' = Pos(rowIndex, columnId)
        /\ keyText' = getCellKey(rowIndex, columnId)
        /\ parsedKey' = NoCell
        /\ UNCHANGED <<hookVars, store, debounceTimer, domVars, fileCell, keyboard>>

\* parseCellKey is called with the key made last.
CellKeyParse ==
    /\ keyPosition # NoCell
    /\ parsedKey' = parseCellKey(keyText)
    /\ UNCHANGED <<hookVars, store, keyPosition, keyText, debounceTimer, domVars, fileCell, keyboard>>

StoreClearSelection == StoreStep(DataGridStore_clearSelection([store EXCEPT !.called = {}]))

\* The match lists a caller hands to setSearchMatches.
StoreMatchLists ==
    {<<>>, <<Pos(0, ColA)>>, <<Pos(0, ColA), Pos(1, ColB)>>,
     <<Pos(0, ColA), Pos(0, ColB), Pos(1, ColA)>>}

StoreSetSearchMatches ==
    \E matches \in StoreMatchLists :
        StoreStep(setSearchMatches([store EXCEPT !.called = {}], matches))

StoreNextMatch == StoreStep(nextMatch([store EXCEPT !.called = {}]))
StorePreviousMatch == StoreStep(previousMatch([store EXCEPT !.called = {}]))

\* Positions handed to selectRange by a caller: any row of the grid by any
\* column, navigable or not.
AnyPositions ==
    {Pos(r, getAllColumns[i]) : <<r, i>> \in (0..(MaxRows - 1)) \X (1..Len(getAllColumns))}

SelectRangeAnywhere ==
    \E a \in AnyPositions, b \in AnyPositions : HookStep(selectRange(Cur, a, b, FALSE))

StoreSelectRangeAnywhere ==
    \E a \in AnyPositions, b \in AnyPositions :
        StoreStep(DataGridStore_selectRange([store EXCEPT !.called = {}], a, b))

\* ------------------------------------------------------------------------
\* Specifications
\* ------------------------------------------------------------------------

\* Every operation of the hook and of the store.
Next ==
    \/ MatchesKeyBindingCall \/ GetKeyboardActionCall
    \/ AutoFocus \/ FocusCell \/ StartEditing \/ StopEditing
    \/ SelectCell \/ SelectRange \/ SelectAll \/ ClearSelection
    \/ CellMouseDown \/ PlainCellMouseDown \/ CtrlCellMouseDown \/ CellMouseEnter \/ CellMouseUp
    \/ NavigationKeyDown \/ ArrowKeyDown \/ EditKeyDown \/ ChordKeyDown \/ PasteKeyDown
    \/ RowSelect \/ FirstRowSelect \/ CellsCopy \/ CellsCut \/ ClipboardWrite
    \/ PasteResolve \/ PasteReject
    \/ PasteDialogOpenChange \/ PasteWithExpansion \/ PasteWithoutExpansion
    \/ PasteExpansionResolve \/ PasteExpansionReject
    \/ RowsDelete \/ RowAdd \/ DataUpdate \/ SearchOpenChange
    \/ SearchQueryChange \/ Search \/ NavigateToNextMatch \/ NavigateToPrevMatch
    \/ DataUpdateBatch \/ FirstColumnUpdate \/ SortingChange \/ ColumnFiltersChange
    \/ TerminatedClipboardWrite
    \/ SearchInputChange \/ ShortSearchInputChange \/ DebouncedSearch \/ SearchKeyDown
    \/ FocusCellThenFrame \/ AnimationFrame \/ CellMount \/ CellUnmount
    \/ FilesAdd \/ FilesUploadResolve \/ FilesUploadReject
    \/ StoreSetSearchMatches \/ StoreNextMatch \/ StorePreviousMatch
    \/ StoreClearSelection
    \/ CellKeyMake \/ CellKeyParse
    \/ StoreKeydown \/ StoreTabKeydown \/ StoreSetFocusedCell \/ StoreStartEditing \/ StoreStopEditing
    \/ StoreSelectRange \/ StoreToggleCellSelection
    \/ SelectRangeAnywhere \/ StoreSelectRangeAnywhere
    \/ StoreCopyToClipboard

Spec == Init /\ [][Next]_vars

\* The selection operations of the hook on a full, editable grid.
SelectionInit == HookInit(MaxRows, FALSE, FALSE, TRUE, FALSE) /\ StoreInit(MaxRows, FALSE)

SelectionNext ==
    \/ FocusCell
    \/ SelectCell \/ SelectRange \/ SelectAll \/ ClearSelection
    \/ CellMouseDown \/ CellMouseEnter \/ CellMouseUp
    \/ NavigationKeyDown \/ FirstRowSelect

SelectionSpec == SelectionInit /\ [][SelectionNext]_vars

\* Clicks with and without modifiers, drags, and Shift+navigation keys.
ClickNext ==
    \/ SelectCell
    \/ CellMouseDown \/ CellMouseEnter \/ CellMouseUp
    \/ ShiftNavigationKeyDown

ClickSpec == SelectionInit /\ [][ClickNext]_vars

\* Keyboard navigation over grids of every size up to MaxRows, with focus
\* placed on mount and rows the host may delete.
NavigationInit ==
    /\ \E n \in 0..MaxRows : HookInit(n, FALSE, FALSE, TRUE, TRUE)
    /\ StoreInit(MaxRows, FALSE)

NavigationNext ==
    \/ AutoFocus \/ NavigationKeyDown \/ ClearSelection \/ RowsDelete

NavigationSpec == NavigationInit /\ [][NavigationNext]_vars

\* Keyboard navigation in the hook next to Tab and Shift+Tab delivered to the
\* store's key handler.
TabNext ==
    \/ AutoFocus \/ NavigationKeyDown \/ RowsDelete
    \/ StoreSetFocusedCell \/ StoreTabKeydown

TabSpec == NavigationInit /\ [][TabNext]_vars

\* Editing on a full, editable grid: pointer, keys and the clipboard.
EditingInit == HookInit(MaxRows, FALSE, TRUE, FALSE, FALSE) /\ StoreInit(MaxRows, FALSE)

EditingNext ==
    \/ StartEditing \/ StopEditing \/ PlainCellMouseDown \/ CellMouseUp
    \/ ArrowKeyDown \/ EditKeyDown \/ ChordKeyDown
    \/ PasteResolve \/ PasteReject

EditingSpec == EditingInit /\ [][EditingNext]_vars

\* A grid constructed read-only.
ReadOnlyInit == HookInit(MaxRows, TRUE, TRUE, TRUE, FALSE) /\ StoreInit(MaxRows, TRUE)

ReadOnlyNext ==
    \/ PlainCellMouseDown \/ StartEditing
    \/ EditKeyDown \/ ChordKeyDown \/ CellsCut
    \/ PasteDialogOpenChange \/ PasteWithExpansion \/ PasteWithoutExpansion
    \/ PasteExpansionResolve \/ PasteExpansionReject
    \/ RowsDelete \/ RowAdd \/ DataUpdate

ReadOnlySpec == ReadOnlyInit /\ [][ReadOnlyNext]_vars

\* The store and its key handler on a full, editable grid.
StoreSpecInit ==
    /\ HookInit(MaxRows, FALSE, FALSE, TRUE, FALSE)
    /\ StoreInit(MaxRows, FALSE)

StoreNext ==
    \/ StoreKeydown \/ StoreSetFocusedCell \/ StoreSelectRange

StoreSpec == StoreSpecInit /\ [][StoreNext]_vars

\* selectRange of the hook and of the store, applied to every pair of positions.
RangeInit == HookInit(MaxRows, FALSE, FALSE, TRUE, FALSE) /\ StoreInit(MaxRows, FALSE)

RangeNext == SelectRangeAnywhere \/ StoreSelectRangeAnywhere

RangeSpec == RangeInit /\ [][RangeNext]_vars

\* Sparse selections built by ctrl-clicks in the hook and by toggles in the
\* store, and copies of them.
CopyNext ==
    \/ CtrlCellMouseDown \/ CellsCopy
    \/ StoreToggleCellSelection \/ StoreCopyToClipboard

CopySpec == SelectionInit /\ [][CopyNext]_vars

\* Pasting into editable grids of every size from 1 to MaxRows, with and
\* without the host's onRowsAdd: focus, clipboard contents, Ctrl+V, the
\* clipboard read settling, and the paste dialog's choices.
PasteInit ==
    /\ \E n \in 1..MaxRows, rowsAdd \in BOOLEAN : HookInit(n, FALSE, rowsAdd, TRUE, FALSE)
    /\ StoreInit(MaxRows, FALSE)

PasteNext ==
    \/ FocusCell \/ ClipboardWrite \/ PasteKeyDown
    \/ PasteResolve \/ PasteReject
    \/ PasteDialogOpenChange \/ PasteWithExpansion \/ PasteWithoutExpansion
    \/ PasteExpansionResolve \/ PasteExpansionReject

PasteSpec == PasteInit /\ [][PasteNext]_vars

\* Cutting the focused cell or the whole grid and pasting what the clipboard
\* holds, on a full editable grid whose host supplies no onRowsAdd.
CutPasteInit == HookInit(MaxRows, FALSE, FALSE, TRUE, FALSE) /\ StoreInit(MaxRows, FALSE)

CutPasteNext ==
    \/ FocusCell \/ SelectAll \/ CellsCut
    \/ PasteKeyDown \/ PasteResolve \/ PasteReject

CutPasteSpec == CutPasteInit /\ [][CutPasteNext]_vars

\* Searching grids of up to MaxRows rows whose cells hold lower-case and
\* mixed-case text, text with a blank in it, null and one- and two-digit
\* numbers.
SearchRows ==
    {[c \in DataColumns |-> IF c = ColA THEN a ELSE b] :
        a \in {Str(<<"x">>), Str(<<"X", "y">>), Str(<<"x", " ", "y">>), NullValue},
        b \in {Num(1), Num(10)}}

SearchInit ==
    /\ \E n \in 0..MaxRows : \E d \in [1..n -> SearchRows] :
          HookInitWith(d, FALSE, FALSE, TRUE, FALSE)
    /\ StoreInit(MaxRows, FALSE)

SearchNext ==
    \/ SearchQueryChange \/ Search \/ NavigateToNextMatch \/ NavigateToPrevMatch
    \/ SearchOpenChange

SearchSpec == SearchInit /\ [][SearchNext]_vars

\* Stepping through the matches of a search, in the hook and in the store.
InitialSearchData ==
    <<[c \in DataColumns |-> IF c = ColA THEN Str(<<"X", "y">>) ELSE Num(1)],
      [c \in DataColumns |-> IF c = ColA THEN Str(<<"x">>) ELSE Num(10)]>>

MatchNavigationInit ==
    /\ HookInitWith(InitialSearchData, FALSE, FALSE, TRUE, FALSE)
    /\ StoreInit(MaxRows, FALSE)

MatchNavigationNext ==
    \/ Search \/ NavigateToNextMatch \/ NavigateToPrevMatch \/ SearchOpenChange
    \/ StoreSetSearchMatches \/ StoreNextMatch \/ StorePreviousMatch

MatchNavigationSpec == MatchNavigationInit /\ [][MatchNavigationNext]_vars

\* Keys made of every row index up to MaxKeyRow and every id of
\* KeyColumnIds, and parsed back.
CellKeyInit == HookInit(MaxRows, FALSE, FALSE, TRUE, FALSE) /\ StoreInit(MaxRows, FALSE)

CellKeyNext == CellKeyMake \/ CellKeyParse

CellKeySpec == CellKeyInit /\ [][CellKeyNext]_vars

\* Focus, editing and selection set and cleared, in the hook and in the store.
ClearNext ==
    \/ FocusCell \/ StartEditing \/ SelectAll \/ ClearSelection
    \/ StoreSetFocusedCell \/ StoreStartEditing \/ StoreSelectRange \/ StoreClearSelection

ClearSpec == SelectionInit /\ [][ClearNext]_vars

\* Cell selection by pointer, row selection by checkbox, and searches.
NavigableNext ==
    \/ SelectAll
    \/ PlainCellMouseDown \/ CellMouseEnter \/ CellMouseUp
    \/ RowSelect \/ Search

NavigableSpec == SelectionInit /\ [][NavigableNext]_vars

\* Cell updates on a full grid while the host sorts and filters it.
UpdateRows ==
    {[c \in DataColumns |-> IF c = ColA THEN a ELSE b] :
        a \in {Str(<<"x">>), Str(<<"y">>)}, b \in {Num(1), Num(2)}}

UpdateInit ==
    /\ \E d \in [1..MaxRows -> UpdateRows] : HookInitWith(d, FALSE, FALSE, TRUE, FALSE)
    /\ StoreInit(MaxRows, FALSE)

UpdateNext == DataUpdateBatch \/ SortingChange \/ ColumnFiltersChange

UpdateSpec == UpdateInit /\ [][UpdateNext]_vars

\* Pasting clipboard texts that end, or do not end, with a line terminator
\* into editable grids of 1 to MaxRows rows, with and without the host's
\* onRowsAdd.
TerminatorInit ==
    /\ \E n \in 1..MaxRows, rowsAdd \in BOOLEAN : HookInit(n, FALSE, rowsAdd, TRUE, FALSE)
    /\ StoreInit(MaxRows, FALSE)

TerminatorNext ==
    \/ FocusCell \/ TerminatedClipboardWrite
    \/ PasteKeyDown \/ PasteResolve \/ PasteReject

TerminatorSpec == TerminatorInit /\ [][TerminatorNext]_vars

\* Opening and closing the search bar from its own buttons and from the
\* grid's keys, typing queries, and the debounce timer firing.
SearchCloseNext ==
    \/ SearchOpenChange \/ SearchKeyDown
    \/ SearchInputChange \/ DebouncedSearch
    \/ NavigateToNextMatch

SearchCloseSpec == MatchNavigationInit /\ [][SearchCloseNext]_vars

\* Searching a grid whose cells are edited, sorted and filtered while the
\* matches of the last search are shown.
StaleSearchNext ==
    \/ SearchOpenChange \/ ShortSearchInputChange \/ DebouncedSearch
    \/ FirstColumnUpdate \/ SortingChange \/ ColumnFiltersChange

StaleSearchSpec == MatchNavigationInit /\ [][StaleSearchNext]_vars

\* Typing into the search bar of grids of up to MaxRows rows, opening and
\* closing it, and the debounce timer firing; an armed timer fires in the end.
DebounceNext == SearchOpenChange \/ SearchInputChange \/ DebouncedSearch

\* The step of DebouncedSearch as seen on the timer: the pending timer runs.
TimerFires == debounceTimer # <<>> /\ debounceTimer' = Tail(debounceTimer)

DebounceSpec == SearchInit /\ [][DebounceNext]_vars /\ WF_debounceTimer(TimerFires)

\* Focusing cells of a full grid whose cell elements the virtualizer mounts
\* and drops, with the animation frames that carry the DOM focus.
FocusFrameNext == FocusCellThenFrame \/ AnimationFrame \/ CellMount \/ CellUnmount

FocusFrameSpec == SelectionInit /\ [][FocusFrameNext]_vars

\* Files added to one file cell, with uploads that overlap, succeed and fail.
FileCellNext == FilesAdd \/ FilesUploadResolve \/ FilesUploadReject

FileCellSpec == SelectionInit /\ [][FileCellNext]_vars

\* The keyboard utilities, called on every event and binding.
KeyBindingNext == MatchesKeyBindingCall \/ GetKeyboardActionCall

KeyBindingSpec == SelectionInit /\ [][KeyBindingNext]_vars

\* ------------------------------------------------------------------------
\* Properties
\* ------------------------------------------------------------------------

\* The keys of the rectangle two positions span over the navigable columns.
RectangleKeys(a, b) ==
    LET cols == getNavigableColumns
        between(x, lo, hi) == Min(lo, hi) <= x /\ x <= Max(lo, hi)
    IN  {getCellKey(r, cols[i]) :
            <<r, i>> \in {ri \in (Min(a.rowIndex, b.rowIndex)..Max(a.rowIndex, b.rowIndex))
                                    \X (1..Len(cols)) :
                             between(ri[2] - 1, FindIndex(cols, a.columnId),
                                     FindIndex(cols, b.columnId))}}

\* C1: whenever selectionRange is non-null, selectedCells is exactly the set
\* of keys of the rectangle its start and end span over the navigable columns.
C1_RangeIsRectangle ==
    selectionState.selectionRange # NoRange =>
        selectionState.selectedCells =
            RectangleKeys(selectionState.selectionRange.start, selectionState.selectionRange.end)

\* C2: whenever a cell is being edited, that cell is the focused cell.
C2_EditingCellIsFocused == editingCell # NoCell => focusedCell = editingCell

\* C3: a key event handled while a cell is being edited changes nothing but,
\* for Escape, the editing cell (which it clears): selection, focus, the cut
\* set, the search-open flag and the paste dialog stay as they were and no
\* paste is started.
C3_KeysSuppressedWhileEditing ==
    [][\A e \in KeyEvents :
          (editingCell # NoCell /\ KeyDown(e)) =>
              /\ selectionState' = selectionState
              /\ focusedCell' = focusedCell
              /\ cutCells' = cutCells
              /\ searchOpen' = searchOpen
              /\ pasteDialog' = pasteDialog
              /\ pastePending' = pastePending
              /\ editingCell' = IF e.key = "Escape" THEN NoCell ELSE editingCell]_vars

\* The host callbacks that change the host's data.
MutationCallbacks == {"onDataChange", "onPaste", "onRowsAdd", "onRowsDelete", "onRowAdd"}

\* C4: in a grid constructed read-only no operation invokes a host mutation
\* callback, and no cell is ever edited or marked as cut.
C4_ReadOnlyNeverMutates ==
    readOnly => /\ emitted \cap MutationCallbacks = {}
                /\ editingCell = NoCell
                /\ cutCells = {}

\* C5: ArrowRight with focus on the last navigable column, and ArrowLeft with
\* focus on the first, leave the focused cell where it is.
C5_ArrowsDoNotWrap ==
    [][/\ (/\ focusedCell # NoCell
           /\ editingCell = NoCell
           /\ focusedCell.columnId = getLastNavigableColumnId
           /\ KeyDown(PlainKey("ArrowRight"))) => focusedCell' = focusedCell
       /\ (/\ focusedCell # NoCell
           /\ editingCell = NoCell
           /\ focusedCell.columnId = getFirstNavigableColumnId
           /\ KeyDown(PlainKey("ArrowLeft"))) => focusedCell' = focusedCell]_vars

\* C6: Tab on the last navigable column of a row that is not the last moves
\* the focus to the first navigable column of the next row, and Shift+Tab on
\* the first navigable column of a row that is not the first moves it to the
\* last navigable column of the previous row, in the hook's key handler and
\* in the store's.
C6_TabWraps ==
    /\ (/\ focusedCell # NoCell /\ editingCell = NoCell
        /\ focusedCell.columnId = getLastNavigableColumnId
        /\ focusedCell.rowIndex < rowCount - 1)
           => keydown(Cur, PlainKey("Tab")).focusedCell =
                  Pos(focusedCell.rowIndex + 1, getFirstNavigableColumnId)
    /\ (/\ focusedCell # NoCell /\ editingCell = NoCell
        /\ focusedCell.columnId = getFirstNavigableColumnId
        /\ focusedCell.rowIndex > 0)
           => keydown(Cur, ShiftKey("Tab")).focusedCell =
                  Pos(focusedCell.rowIndex - 1, getLastNavigableColumnId)
    /\ (/\ store.focusedCell # NoCell /\ store.editingCell = NoCell
        /\ store.focusedCell.columnId = OrderAt(store.columnOrder, Len(store.columnOrder) - 1)
        /\ store.focusedCell.rowIndex < Len(store.data) - 1)
           => handleKeydown(store, PlainKey("Tab")).focusedCell =
                  Pos(store.focusedCell.rowIndex + 1, OrderAt(store.columnOrder, 0))
    /\ (/\ store.focusedCell # NoCell /\ store.editingCell = NoCell
        /\ store.focusedCell.columnId = OrderAt(store.columnOrder, 0)
        /\ store.focusedCell.rowIndex > 0)
           => handleKeydown(store, ShiftKey("Tab")).focusedCell =
                  Pos(store.focusedCell.rowIndex - 1,
                      OrderAt(store.columnOrder, Len(store.columnOrder) - 1))

\* C7: ArrowUp / ArrowDown keep the column and set the row to max(0, row-1) /
\* min(rowCount-1, row+1), and the resulting row lies in 0..rowCount-1.
C7_VerticalClamp ==
    [][/\ (focusedCell # NoCell /\ editingCell = NoCell /\ KeyDown(PlainKey("ArrowUp"))) =>
              /\ focusedCell' = Pos(Max(0, focusedCell.rowIndex - 1), focusedCell.columnId)
              /\ focusedCell'.rowIndex \in 0..(rowCount - 1)
       /\ (focusedCell # NoCell /\ editingCell = NoCell /\ KeyDown(PlainKey("ArrowDown"))) =>
              /\ focusedCell' = Pos(Min(rowCount - 1, focusedCell.rowIndex + 1), focusedCell.columnId)
              /\ focusedCell'.rowIndex \in 0..(rowCount - 1)]_vars

\* C8: a range selected from a to b holds the cells that selecting from b to
\* a would select, in the hook and in the store.
C8_SelectRangeOrderIndependent ==
    /\ selectionState.selectionRange # NoRange =>
           selectionState.selectedCells =
               selectRange(Cur, selectionState.selectionRange.end,
                           selectionState.selectionRange.start, FALSE).selectionState.selectedCells
    /\ store.selectionRange # NoRange =>
           store.selectedCells =
               DataGridStore_selectRange(store, store.selectionRange.end,
                                         store.selectionRange.start).selectedCells

\* C8 witness: the hook and the store both hold a range given from its
\* bottom-right corner to its top-left corner, with all four cells selected.
C8_Witness ==
    /\ selectionState.selectionRange = [start |-> Pos(1, ColB), end |-> Pos(0, ColA)]
    /\ Cardinality(selectionState.selectedCells) = 4
    /\ store.selectionRange = [start |-> Pos(1, ColB), end |-> Pos(0, ColA)]
    /\ Cardinality(store.selectedCells) = 4

\* C9: a ctrl/cmd-click on p (onCellMouseDown or selectCell) flips the
\* membership of key(p) in selectedCells and changes no other member, nor
\* selectionRange, nor selectionAnchor.
C9_CtrlClickOnlyToggles ==
    [][\A p \in RenderedCells(rowCount), e \in {CtrlMouse, MetaMouse} :
          (\/ HookStep(onCellMouseDown(Cur, p.rowIndex, p.columnId, e))
           \/ HookStep(selectCell(Cur, p.rowIndex, p.columnId, e))) =>
              LET key == getCellKey(p.rowIndex, p.columnId)
              IN  /\ (key \in selectionState'.selectedCells) # (key \in selectionState.selectedCells)
                  /\ selectionState'.selectedCells \ {key} = selectionState.selectedCells \ {key}
                  /\ selectionState'.selectionRange = selectionState.selectionRange
                  /\ selectionAnchor' = selectionAnchor]_vars

\* C10: a plain click sets the anchor to the clicked cell; once an anchor is
\* set, ctrl/cmd-clicks, shift-clicks and Shift+arrow extensions keep it;
\* every range they produce starts at it; and a shift-click on P selects
\* exactly the rectangle spanned by the anchor and P.
C10_AnchorPreserved ==
    /\ \A p \in RenderedCells(rowCount) :
           onCellMouseDown(Cur, p.rowIndex, p.columnId, PlainMouse).selectionAnchor = p
    /\ selectionAnchor # NoCell =>
           \A p \in RenderedCells(rowCount), e \in {CtrlMouse, MetaMouse, ShiftMouse} :
               LET s == onCellMouseDown(Cur, p.rowIndex, p.columnId, e)
               IN  /\ s.selectionAnchor = selectionAnchor
                   /\ s.selectionState.selectionRange # selectionState.selectionRange =>
                          s.selectionState.selectionRange.start = selectionAnchor
                   /\ e = ShiftMouse =>
                          /\ s.selectionState.selectionRange =
                                 [start |-> selectionAnchor, end |-> p]
                          /\ s.selectionState.selectedCells = RectangleKeys(selectionAnchor, p)
    /\ (selectionAnchor # NoCell /\ focusedCell # NoCell) =>
           \A k \in NavigationKeys :
               LET s == keydown(Cur, ShiftKey(k))
               IN  /\ s.selectionAnchor = selectionAnchor
                   /\ s.selectionState.selectionRange # selectionState.selectionRange =>
                          /\ s.selectionState.selectionRange.start = selectionAnchor
                          /\ s.selectionState.selectedCells =
                                 RectangleKeys(selectionAnchor, s.selectionState.selectionRange.end)

\* C10 witness: after a plain click on the first cell, a range that starts at
\* the anchor and ends at the focused last cell, with one of its cells
\* toggled off by a ctrl/cmd-click.
C10_Witness ==
    /\ selectionAnchor = Pos(0, ColA)
    /\ selectionState.selectionRange = [start |-> Pos(0, ColA), end |-> Pos(1, ColB)]
    /\ selectionState.selectedCells =
           RectangleKeys(Pos(0, ColA), Pos(1, ColB)) \ {getCellKey(0, ColB)}
    /\ focusedCell = Pos(0, ColB)

IsDenseBlock(text, selected, cols, rows) ==
    LET positions == {parseCellKey(k) : k \in selected}
        rowsOf == {p.rowIndex : p \in positions}
        colsOf == {FindIndex(cols, p.columnId) : p \in positions}
        minRow == CHOOSE r \in rowsOf : \A q \in rowsOf : r <= q
        maxRow == CHOOSE r \in rowsOf : \A q \in rowsOf : r >= q
        minCol == CHOOSE c \in colsOf : \A q \in colsOf : c <= q
        maxCol == CHOOSE c \in colsOf : \A q \in colsOf : c >= q
        lines == Split(text, "\n")
        shown(value) == IF value.type = "null" THEN <<>>
                        ELSE IF value.type = "number" THEN IntToStr(value.val)
                        ELSE value.val
    IN  /\ Len(lines) = maxRow - minRow + 1
        /\ \A i \in 1..Len(lines) :
               LET entries == Split(lines[i], "\t")
               IN  /\ Len(entries) = maxCol - minCol + 1
                   /\ \A j \in 1..Len(entries) :
                          LET c == cols[minCol + j]
                          IN  entries[j] =
                                  IF getCellKey(minRow + i - 1, c) \in selected
                                  THEN shown(rows[minRow + i][c])
                                  ELSE <<>>

\* C12: the text a copy of a non-empty selection emits is the dense block of
\* the selection, for the hook's copySelectedCells and for the clipboard
\* utility over the store.
C12_CopyIsDenseBlock ==
    /\ selectionState.selectedCells # {} =>
           IsDenseBlock(copySelectedCells(Cur).clipboard, selectionState.selectedCells,
                        getNavigableColumns, data)
    /\ store.selectedCells # {} =>
           IsDenseBlock(copyToClipboardText(store), store.selectedCells,
                        store.columnOrder, store.data)

\* The rows after the clipboard matrix of text is written with its top-left
\* cell at start: the entry in line i, place j goes to row start.rowIndex + i,
\* and to the j-th navigable column counted from start's; entries that fall
\* outside the rows or the navigable columns are dropped.
PasteResult(rows, text, start) ==
    LET cols == getNavigableColumns
        c0 == FindIndex(cols, start.columnId)
        lines == Split(text, "\n")
        entries(i) == Split(lines[i], "\t")
        targeted(r, c) ==
            /\ c0 >= 0 /\ FindIndex(cols, c) >= c0
            /\ r - start.rowIndex + 1 \in 1..Len(lines)
            /\ FindIndex(cols, c) - c0 + 1 \in 1..Len(entries(r - start.rowIndex + 1))
    IN  [r \in 1..Len(rows) |->
            [c \in (DOMAIN rows[r]) \cup {c \in DataColumns : targeted(r - 1, c)} |->
                IF targeted(r - 1, c)
                THEN parseCellValueForPaste(
                         entries(r - start.rowIndex)[FindIndex(cols, c) - c0 + 1])
                ELSE rows[r][c]]]

\* C13: when a paste's clipboard read settles with a non-blank text of m
\* lines while the focus is in row t of n rows, rowsNeeded is t + m - n; if it
\* is positive and the host supplies onRowsAdd the paste dialog opens with
\* that rowsNeeded and the text and nothing is updated; if it is not positive
\* the matrix is written at once and the dialog is left as it was.
C13_PasteNegotiation ==
    (pastePending > 0 /\ focusedCell # NoCell) =>
        \A text \in {x \in ClipTexts : ~TrimIsEmpty(x)} :
            LET s == pasteFromClipboardResume(Cur, text)
                rowsNeeded == focusedCell.rowIndex + Len(Split(text, "\n")) - rowCount
            IN  /\ (rowsNeeded > 0 /\ onRowsAdd) =>
                       /\ s.pasteDialog = [open |-> TRUE, rowsNeeded |-> rowsNeeded,
                                           clipboardText |-> text]
                       /\ s.data = data
                       /\ s.emitted = {}
                /\ rowsNeeded <= 0 =>
                       /\ s.pasteDialog = pasteDialog
                       /\ s.data = PasteResult(data, text, focusedCell)
                       /\ s.emitted = {"onDataChange", "onPaste"}

\* C13 witness: the dialog opened for a two-line text pasted into the last
\* of two rows, asking for one more row, with the data untouched.
C13_Witness ==
    /\ pasteDialog = [open |-> TRUE, rowsNeeded |-> 1, clipboardText |-> <<"1", "\n", "2">>]
    /\ focusedCell = Pos(1, ColA)
    /\ data = InitialData(2)
    /\ onRowsAdd
    /\ emitted = {}

\* C14: choosing "constrain" in the open paste dialog writes the entries of
\* the dialog's clipboard matrix whose target row exists, drops the others
\* (no row is added), and closes the dialog.
C14_ConstrainDropsOverflow ==
    (pasteDialog.open /\ focusedCell # NoCell) =>
        LET s == onPasteWithoutExpansion(Cur)
        IN  /\ s.data = PasteResult(data, pasteDialog.clipboardText, focusedCell)
            /\ Len(s.data) = rowCount
            /\ ~s.pasteDialog.open
            /\ s.emitted = {"onDataChange", "onPaste"}

\* C14 witness: after "constrain" for a two-line text pasted into the last of
\* two rows, only that row has received the first line.
C14_Witness ==
    /\ pasteDialog = [open |-> FALSE, rowsNeeded |-> 1, clipboardText |-> <<"1", "\n", "2">>]
    /\ focusedCell = Pos(1, ColA)
    /\ data = <<InitialRow(0), [InitialRow(1) EXCEPT ![ColA] = Num(1)]>>
    /\ emitted = {"onDataChange", "onPaste"}

\* C15: choosing "expand" in the paste dialog negotiated for the focused
\* cell first asks the host's onRowsAdd for rowsNeeded rows and updates
\* nothing; once the host has appended them, every entry of the clipboard
\* matrix that falls on a navigable column is written, those in the new rows
\* included, in one update batch, and the dialog is closed.
C15_ExpandAppliesEveryCell ==
    /\ (pasteDialog.open /\ onRowsAdd) =>
           LET s == onPasteWithExpansion(Cur)
           IN  /\ s.emitted = {"onRowsAdd"}
               /\ s.expanding = Append(expanding, pasteDialog.rowsNeeded)
               /\ s.data = data
    /\ (/\ expanding # <<>> /\ pasteDialog.open /\ focusedCell # NoCell
        /\ Head(expanding) = pasteDialog.rowsNeeded
        /\ pasteDialog.rowsNeeded > 0
        /\ pasteDialog.rowsNeeded =
               focusedCell.rowIndex + Len(Split(pasteDialog.clipboardText, "\n")) - rowCount) =>
           LET s == onPasteWithExpansionResume(Cur)
               text == pasteDialog.clipboardText
               lines == Split(text, "\n")
               cols == getNavigableColumns
               c0 == FindIndex(cols, focusedCell.columnId)
           IN  /\ Len(s.data) = rowCount + pasteDialog.rowsNeeded
               /\ s.data = PasteResult(data \o [i \in 1..pasteDialog.rowsNeeded |-> BlankRow],
                                       text, focusedCell)
               /\ \A i \in 1..Len(lines) :
                      \A j \in 1..Len(Split(lines[i], "\t")) :
                          c0 + j <= Len(cols) =>
                              s.data[focusedCell.rowIndex + i][cols[c0 + j]] =
                                  parseCellValueForPaste(Split(lines[i], "\t")[j])
               /\ ~s.pasteDialog.open
               /\ s.emitted = {"onDataChange", "onPaste"}

\* C15 witness: a two-line text pasted into the only row of a grid, after
\* "expand": the host added a second row and it received the second line.
C15_Witness ==
    /\ pasteDialog = [open |-> FALSE, rowsNeeded |-> 1, clipboardText |-> <<"1", "\n", "2">>]
    /\ focusedCell = Pos(0, ColA)
    /\ data = <<[InitialRow(0) EXCEPT ![ColA] = Num(1)], [BlankRow EXCEPT ![ColA] = Num(2)]>>
    /\ expanding = <<>>
    /\ emitted = {"onDataChange", "onPaste"}

\* The cells the clipboard matrix of text targets when pasted at start: row,
\* column and the entry's text, for the entries that fall on a row among
\* rowLimit rows and on a navigable column.
MatrixTargets(text, start, rowLimit) ==
    LET cols == getNavigableColumns
        c0 == FindIndex(cols, start.columnId)
        lines == Split(text, "\n")
    IN  {[rowIndex |-> start.rowIndex + ij[1] - 1, columnId |-> cols[c0 + ij[2]],
          text |-> Split(lines[ij[1]], "\t")[ij[2]]] :
            ij \in {x \in (1..Len(lines)) \X (1..Len(cols)) :
                       /\ c0 >= 0 /\ c0 + x[2] <= Len(cols)
                       /\ x[2] <= Len(Split(lines[x[1]], "\t"))
                       /\ start.rowIndex + x[1] - 1 < rowLimit}}

\* C16: a paste that follows a cut hands over one update batch that holds
\* the pasted value of every targeted cell and a null for every cut cell and
\* nothing else, and leaves the cut set empty; where no cut cell is also a
\* target, the data then holds the pasted values and null in the cut cells.
C16_PasteAfterCut ==
    (/\ pastePending > 0 /\ cutCells # {} /\ focusedCell # NoCell
     /\ ~TrimIsEmpty(clipboard)) =>
        LET s == pasteFromClipboardResume(Cur, clipboard)
            c0 == FindIndex(getNavigableColumns, focusedCell.columnId)
            batch == PasteBatch(Cur, clipboard, focusedCell, c0)
            targets == MatrixTargets(clipboard, focusedCell, rowCount)
            cut == {parseCellKey(k) : k \in cutCells}
            held(u) == \E k \in 1..Len(batch) : batch[k] = u
        IN  targets # {} =>
                /\ \A g \in targets :
                       held([rowIndex |-> g.rowIndex, columnId |-> g.columnId,
                             value |-> parseCellValueForPaste(g.text)])
                /\ \A p \in cut :
                       held([rowIndex |-> p.rowIndex, columnId |-> p.columnId,
                             value |-> NullValue])
                /\ Len(batch) = Cardinality(targets) + Cardinality(cutCells)
                /\ s.emitted = {"onDataChange", "onPaste"}
                /\ s.data = ApplyUpdates(data, batch)
                /\ s.cutCells = {}
                /\ (\A g \in targets : Pos(g.rowIndex, g.columnId) \notin cut) =>
                       /\ \A g \in targets :
                              s.data[g.rowIndex + 1][g.columnId] = parseCellValueForPaste(g.text)
                       /\ \A p \in cut : s.data[p.rowIndex + 1][p.columnId] = NullValue

\* C16 witness: the first cell was cut and pasted into the last cell: the
\* last cell holds its text, the first cell is null, nothing is marked cut.
C16_Witness ==
    /\ data = <<[InitialRow(0) EXCEPT ![ColA] = NullValue],
                [InitialRow(1) EXCEPT ![ColB] = Str(<<"x">>)]>>
    /\ clipboard = <<"x">>
    /\ cutCells = {}
    /\ focusedCell = Pos(1, ColB)
    /\ emitted = {"onDataChange", "onPaste"}

\* Two characters that are equal or the two cases of one letter.
SameLetter(a, b) ==
    a = b \/ \E k \in 1..26 : {a, b} = {UpperCaseLetters[k], LowerCaseLetters[k]}

\* text holds q somewhere, letter case aside.
ContainsIgnoringCase(text, q) ==
    \E i \in 0..(Len(text) - Len(q)) : \A j \in 1..Len(q) : SameLetter(text[i + j], q[j])

\* The cells of the grid in row-major, then navigable-column order whose
\* display value holds q, letter case aside.
BruteForceMatches(q) ==
    LET cols == getNavigableColumns
        cell(k) == Pos((k - 1) \div Len(cols), cols[((k - 1) % Len(cols)) + 1])
        shown(p) == StringOfValue(data[p.rowIndex + 1][p.columnId])
    IN  SelectSeq([k \in 1..(rowCount * Len(cols)) |-> cell(k)],
                  LAMBDA p : ContainsIgnoringCase(shown(p), q))

\* The result performSearch(q) leaves when expected is the list of matches.
SearchLeaves(q, expected) ==
    LET s == performSearch(Cur, q)
    IN  /\ s.searchMatches = expected
        /\ s.searchMatchSet =
              {getCellKey(expected[k].rowIndex, expected[k].columnId) : k \in 1..Len(expected)}
        /\ s.matchIndex = 0

\* C17 as stated: the empty query yields no match and an empty match set;
\* every non-empty query yields the brute-force matches in row-major, then
\* column order and their key set; the match index is 0 afterwards.
C17_SearchMatchesBruteForce ==
    \A q \in SearchQueries :
        SearchLeaves(q, IF q = <<>> THEN <<>> ELSE BruteForceMatches(q))

\* C17 amended: a query that is empty once trimmed yields no match and an
\* empty match set; every other query yields the brute-force matches in
\* row-major, then column order and their key set; the match index is 0
\* afterwards.
C17_SearchMatchesUnlessBlank ==
    \A q \in SearchQueries :
        SearchLeaves(q, IF TrimIsEmpty(q) THEN <<>> ELSE BruteForceMatches(q))

\* C17 witness: a search has found the one cell that holds its query in
\* another letter case, and not the cell below it.
C17_Witness ==
    /\ rowCount = 2
    /\ data[1][ColA] = Str(<<"X", "y">>) /\ data[2][ColA] = Str(<<"x">>)
    /\ searchMatches = <<Pos(0, ColA)>>
    /\ searchMatchSet = {getCellKey(0, ColA)}
    /\ matchIndex = 0

\* C18: with no match, stepping to the next or the previous match changes
\* nothing; with matches, next moves the match index up by one and from the
\* last match to the first, previous moves it down by one and from the first
\* match to the last, neither changes anything else of the search state, and
\* next followed by previous (and previous followed by next) leaves the
\* index where it was; the same holds of the store's nextMatch and
\* previousMatch.
C18_MatchNavigationCyclic ==
    LET n == Len(searchMatches)
        up(i, len) == IF i = len - 1 THEN 0 ELSE i + 1
        down(i, len) == IF i = 0 THEN len - 1 ELSE i - 1
        sn == Len(store.searchMatches)
    IN  /\ n = 0 => navigateToNextMatch(Cur) = Cur /\ navigateToPrevMatch(Cur) = Cur
        /\ n > 0 =>
              /\ navigateToNextMatch(Cur) = [Cur EXCEPT !.matchIndex = up(matchIndex, n)]
              /\ navigateToPrevMatch(Cur) = [Cur EXCEPT !.matchIndex = down(matchIndex, n)]
              /\ navigateToPrevMatch(navigateToNextMatch(Cur)).matchIndex = matchIndex
              /\ navigateToNextMatch(navigateToPrevMatch(Cur)).matchIndex = matchIndex
        /\ sn = 0 => nextMatch(store) = store /\ previousMatch(store) = store
        /\ sn > 0 =>
              /\ nextMatch(store).matchIndex = up(store.matchIndex, sn)
              /\ previousMatch(store).matchIndex = down(store.matchIndex, sn)
              /\ nextMatch(store).searchMatches = store.searchMatches
              /\ previousMatch(store).searchMatches = store.searchMatches
              /\ previousMatch(nextMatch(store)).matchIndex = store.matchIndex
              /\ nextMatch(previousMatch(store)).matchIndex = store.matchIndex

\* C18 witness: the hook stands on the last of two matches and the store on
\* the last of three, from where next wraps to the first.
C18_Witness ==
    /\ Len(searchMatches) = 2 /\ matchIndex = 1
    /\ Len(store.searchMatches) = 3 /\ store.matchIndex = 2

\* C19: after any run of searches, steps to the next or previous match and
\* openings and closings of the search bar, the match set holds exactly the
\* keys of the listed matches, and the match index points at one of the
\* listed matches whenever there is one.
C19_SearchStateConsistent ==
    /\ searchMatchSet =
          {getCellKey(searchMatches[k].rowIndex, searchMatches[k].columnId) :
              k \in 1..Len(searchMatches)}
    /\ searchMatches # <<>> => matchIndex >= 0 /\ matchIndex < Len(searchMatches)

\* C19 witness: the search bar is open on two matches and the match index
\* has been moved to the second of them.
C19_Witness ==
    /\ searchOpen
    /\ Len(searchMatches) = 2
    /\ Cardinality(searchMatchSet) = 2
    /\ matchIndex = 1

\* columnId holds no colon.
HasNoColon(columnId) == \A i \in 1..Len(columnId) : columnId[i] # ":"

\* C20 as stated: the key made of a non-negative row index and a column id
\* without a colon parses back to that row index and that column id.
C20_CellKeyRoundTrip ==
    (parsedKey # NoCell /\ HasNoColon(keyPosition.columnId)) =>
        /\ parsedKey = keyPosition
        /\ parseCellKey(getCellKey(keyPosition.rowIndex, keyPosition.columnId)) = keyPosition

\* C20 amended: the key made of a non-negative row index and a non-empty
\* column id without a colon parses back to that row index and that column
\* id.
C20_CellKeyRoundTripNonEmptyId ==
    (/\ parsedKey # NoCell /\ HasNoColon(keyPosition.columnId)
     /\ keyPosition.columnId # <<>>) =>
        /\ parsedKey = keyPosition
        /\ parseCellKey(getCellKey(keyPosition.rowIndex, keyPosition.columnId)) = keyPosition

\* C20 witness: the key of row 12 of the select column has been made and
\* parsed back to row 12 of the select column.
C20_Witness ==
    /\ keyPosition = Pos(12, ColSelect)
    /\ keyText = <<"1", "2", ":">> \o ColSelect
    /\ parsedKey = Pos(12, ColSelect)

\* C21: clearing the selection, from any state, leaves no cell selected, no
\* selection range, no focused cell and no cell being edited; in the hook, in
\* the store, and through the cancel key of the store's key handler.
C21_ClearSelectionBlurs ==
    LET s == clearSelection(Cur)
        st == DataGridStore_clearSelection(store)
        cancelled == handleKeydown(store, PlainKey("Escape"))
    IN  /\ s.selectionState.selectedCells = {}
        /\ s.selectionState.selectionRange = NoRange
        /\ s.focusedCell = NoCell
        /\ s.editingCell = NoCell
        /\ st.selectedCells = {}
        /\ st.selectionRange = NoRange
        /\ st.focusedCell = NoCell
        /\ st.editingCell = NoCell
        /\ (store.editingCell = NoCell /\ ~store.searchOpen) =>
              /\ cancelled.selectedCells = {}
              /\ cancelled.selectionRange = NoRange
              /\ cancelled.focusedCell = NoCell

\* C21 in the hook alone.
C21_HookClearSelectionBlurs ==
    LET s == clearSelection(Cur)
    IN  /\ s.selectionState = EmptySelection
        /\ s.focusedCell = NoCell
        /\ s.editingCell = NoCell

\* C22: every selected cell key and every search match names a navigable
\* column, also after rows were selected through onRowSelect.
C22_OnlyNavigableColumns ==
    LET navigable == {getNavigableColumns[i] : i \in 1..Len(getNavigableColumns)}
    IN  /\ \A key \in selectionState.selectedCells : parseCellKey(key).columnId \in navigable
        /\ \A k \in 1..Len(searchMatches) : searchMatches[k].columnId \in navigable

\* C22 without row selection: what pointer selection, selectAll and searches
\* leave names navigable columns only.
C22_OnlyNavigableColumnsUnlessRowsSelected ==
    LET navigable == {getNavigableColumns[i] : i \in 1..Len(getNavigableColumns)}
    IN  rowSelection = {} /\ lastClickedRowIndex = NoRow =>
            /\ \A key \in selectionState.selectedCells : parseCellKey(key).columnId \in navigable
            /\ \A k \in 1..Len(searchMatches) : searchMatches[k].columnId \in navigable

\* The data a batch of updates must leave: every cell targeted by an update
\* (display row, column) holds the value of the last update that targets it,
\* and every other cell and row is as before.
UpdatedData(updates) ==
    LET rows == getRowModel(Cur)
        hits(i, c) == {k \in 1..Len(updates) :
                          /\ updates[k].rowIndex >= 0 /\ updates[k].rowIndex < Len(rows)
                          /\ rows[updates[k].rowIndex + 1] = i - 1
                          /\ updates[k].columnId = c}
        last(S) == CHOOSE k \in S : \A j \in S : j <= k
    IN  [i \in 1..Len(data) |->
            [c \in DataColumns |->
                IF hits(i, c) = {} THEN data[i][c] ELSE updates[last(hits(i, c))].value]]

\* C23: for any batch of updates, also while a filter hides rows or a sort
\* reorders them, the array handed to onDataChange is as long as the data,
\* each update sets its column of the data row displayed at its row index,
\* and every other row and cell is unchanged.
C23_UpdateChangesOnlyTargets ==
    \A updates \in UpdateBatches(rowCount) :
        LET s == handleDataUpdate(Cur, updates)
        IN  /\ Len(s.data) = Len(data)
            /\ s.data = UpdatedData(updates)

\* C23 while every data row is displayed (sorted or not).
C23_UpdateChangesOnlyTargetsUnfiltered ==
    rowCount = Len(data) =>
        \A updates \in UpdateBatches(rowCount) :
            handleDataUpdate(Cur, updates).data = UpdatedData(updates)

\* C24: when a paste follows a cut and a cell the paste writes is also a cut
\* cell, that cell holds the pasted value afterwards.
C24_PastedValueSurvivesCut ==
    (/\ pastePending > 0 /\ cutCells # {} /\ focusedCell # NoCell
     /\ ~TrimIsEmpty(clipboard)) =>
        LET s == pasteFromClipboardResume(Cur, clipboard)
            targets == MatrixTargets(clipboard, focusedCell, rowCount)
            cut == {parseCellKey(k) : k \in cutCells}
        IN  \A g \in targets :
                Pos(g.rowIndex, g.columnId) \in cut =>
                    s.data[g.rowIndex + 1][g.columnId] = parseCellValueForPaste(g.text)

C26_DragExtension ==
    \A p \in RenderedCells(rowCount) :
        LET s == onCellMouseEnter(Cur, p.rowIndex, p.columnId)
        IN  IF selectionState.isSelecting /\ selectionAnchor # NoCell
            THEN s = [Cur EXCEPT !.selectionState =
                         [selectedCells |-> RectangleKeys(selectionAnchor, p),
                          selectionRange |-> [start |-> selectionAnchor, end |-> p],
                          isSelecting |-> TRUE]]
            ELSE s = Cur

\* C26 witness: a drag that began on the first cell has reached the last
\* cell: the whole grid is selected and the drag is still going.
C26_Witness ==
    /\ selectionState =
           [selectedCells |-> RectangleKeys(Pos(0, ColA), Pos(1, ColB)),
            selectionRange |-> [start |-> Pos(0, ColA), end |-> Pos(1, ColB)],
            isSelecting |-> TRUE]
    /\ selectionAnchor = Pos(0, ColA)
    /\ focusedCell = Pos(0, ColA)

\* The options the cell editors pass to stopEditing.
StopEditingOptions ==
    {NoOpts,
     [direction |-> "", moveToNextRow |-> TRUE],
     [direction |-> "left", moveToNextRow |-> FALSE],
     [direction |-> "right", moveToNextRow |-> FALSE],
     [direction |-> "right", moveToNextRow |-> TRUE]}

\* C27: stopEditing always clears editingCell. Called with no options it
\* changes nothing else (focus and selection stay). With moveToNextRow and a
\* focused cell the focus moves one row down in the same column, staying put
\* on the last row. With a direction the focus moves to the cell the
\* navigation computes for that direction from the focused cell.
C27_StopEditing ==
    \A opts \in StopEditingOptions :
        LET s == stopEditing(Cur, opts)
        IN  /\ s.editingCell = NoCell
            /\ opts = NoOpts => s = [Cur EXCEPT !.editingCell = NoCell]
            /\ (opts.direction = "" /\ opts.moveToNextRow /\ focusedCell # NoCell) =>
                    s.focusedCell = Pos(IF focusedCell.rowIndex + 1 < rowCount
                                        THEN focusedCell.rowIndex + 1
                                        ELSE focusedCell.rowIndex,
                                        focusedCell.columnId)
            /\ (opts.direction # "" /\ focusedCell # NoCell) =>
                    s.focusedCell = navigateCellTarget(Cur, opts.direction)
            /\ focusedCell = NoCell => s.focusedCell = NoCell

\* C27 witness: the first cell is being edited, and stopping with
\* moveToNextRow lands on the cell below it.
C27_Witness ==
    /\ editingCell = Pos(0, ColA)
    /\ focusedCell = Pos(0, ColA)
    /\ stopEditing(Cur, [direction |-> "", moveToNextRow |-> TRUE]).focusedCell = Pos(1, ColA)

\* C28: a trailing line terminator in the clipboard text adds no row to a
\* paste: when the clipboard read of a pending paste settles, the rows asked
\* for in the paste dialog, the data written and the callbacks invoked are
\* the same for a text and for that text followed by a line terminator.
C28_TrailingTerminatorAddsNoRow ==
    pastePending > 0 =>
        \A text \in UnterminatedTexts :
            LET plain == pasteFromClipboardResume(Cur, text)
                terminated == pasteFromClipboardResume(Cur, text \o <<"\n">>)
            IN  /\ terminated.pasteDialog.open = plain.pasteDialog.open
                /\ terminated.pasteDialog.rowsNeeded = plain.pasteDialog.rowsNeeded
                /\ terminated.data = plain.data
                /\ terminated.emitted = plain.emitted

\* C29: whenever the search panel is closed, searchMatches and searchMatchSet
\* are empty and matchIndex is 0, also after Ctrl/Cmd+F or Escape closed it
\* from the grid, and after a debounced search armed before the close fired.
C29_ClosedSearchHasNoMatches ==
    ~searchOpen => searchMatches = <<>> /\ searchMatchSet = {} /\ matchIndex = 0

\* The same, for closes through handleSearchOpenChange with no timer armed.
C29_ClosedByPanelHasNoMatches ==
    [][(searchOpen /\ debounceTimer = <<>>
            /\ Cur' = handleSearchOpenChange(Cur, FALSE))
        => (searchMatches' = <<>> /\ searchMatchSet' = {} /\ matchIndex' = 0)]_vars

\* The display value of the cell at p holds the query typed last, letter
\* case aside.
ShowsQuery(p) ==
    ContainsIgnoringCase(StringOfValue(getValue(Cur, p.rowIndex, p.columnId)), searchQuery)

\* C30: search matches stay consistent with the grid contents: once the
\* search of the query typed last has run, every position in searchMatches
\* and every key in searchMatchSet denotes a cell whose current display value
\* contains the query, also after a cell update, a sort change or a filter
\* change.
C30_MatchesShowQuery ==
    debounceTimer = <<>> =>
        /\ \A k \in 1..Len(searchMatches) : ShowsQuery(searchMatches[k])
        /\ \A key \in searchMatchSet : ShowsQuery(parseCellKey(key))

\* The same, for a grid that is searched but not edited, sorted or filtered.
C30_MatchesShowQueryUnchangedGrid ==
    (debounceTimer = <<>> /\ data = InitialSearchData /\ sorting = <<>> /\ columnFilters = <<>>) =>
        /\ \A k \in 1..Len(searchMatches) : ShowsQuery(searchMatches[k])
        /\ \A key \in searchMatchSet : ShowsQuery(parseCellKey(key))

\* C31: focusedCell always addresses an existing cell: it is null, or its
\* rowIndex lies in 0..rowCount-1 and its columnId is a navigable column,
\* also after rows were deleted, on an empty grid, and after any navigation
\* key.
C31_FocusedCellExists ==
    focusedCell # NoCell =>
        /\ focusedCell.rowIndex >= 0
        /\ focusedCell.rowIndex < rowCount
        /\ \E i \in 1..Len(getNavigableColumns) : getNavigableColumns[i] = focusedCell.columnId

\* The same, for grids that hold a row and never lose one.
C31_FocusedCellExistsWhileRowsStay ==
    [][(focusedCell # NoCell /\ focusedCell.rowIndex \in 0..(rowCount - 1)
            /\ Len(data') >= Len(data))
        => (focusedCell' # NoCell => focusedCell'.rowIndex \in 0..(rowCount - 1))]_vars

\* C32: cut is a deferred clear: cutSelectedCells copies the selection to the
\* clipboard and records selectedCells as the cut set; it changes no cell
\* value and emits no onDataChange, and nothing else of the grid's state
\* changes. The store's markCellsAsCut likewise records the selection and
\* leaves the data alone.
C32_CutDefersClear ==
    LET s == cutSelectedCells(Cur)
        selected == selectionState.selectedCells
    IN  /\ s.data = data
        /\ "onDataChange" \notin s.emitted
        /\ s.cutCells = selected
        /\ selected # {} => s.clipboard = CopyText(Cur, selected)
        /\ s = [Cur EXCEPT !.cutCells = selected, !.clipboard = s.clipboard]
        /\ markCellsAsCut(store) = [store EXCEPT !.cutCells = store.selectedCells]

\* C32 witness: the whole grid has been cut and holds its initial values.
C32_Witness ==
    /\ cutCells = RectangleKeys(Pos(0, ColA), Pos(MaxRows - 1, ColB))
    /\ clipboard # <<>>
    /\ data = InitialData(MaxRows)
    /\ "onDataChange" \notin emitted

\* A step of the search input that arms the debounce timer anew.
TimerArmed == debounceTimer' # <<>> /\ debounceTimer' # debounceTimer

\* C33: the search input is debounced last-write-wins. At most one search is
\* pending; whenever the pending search changes it is gone or it is the
\* search of the query just typed; the search that runs is the pending one;
\* and once the input changes stop, the pending search runs and none stays
\* pending: one search for a burst, with its last query.
C33_DebounceLastWriteWins ==
    /\ [](Len(debounceTimer) <= 1)
    /\ [][debounceTimer' # debounceTimer =>
              (debounceTimer' = <<>> \/ debounceTimer' = <<searchQuery'>>)]_vars
    /\ [][(debounceTimer # <<>> /\ debounceTimer' = <<>>) =>
              /\ searchMatches' = performSearch(Cur, debounceTimer[1]).searchMatches
              /\ searchMatchSet' = performSearch(Cur, debounceTimer[1]).searchMatchSet]_vars
    /\ ([]<><<TimerArmed>>_vars \/ <>[](debounceTimer = <<>>))

\* C33 witness: "x" was typed last, its search has run and found both cells
\* of the first column, and no search is pending.
C33_Witness ==
    /\ searchOpen
    /\ searchQuery = <<"x">>
    /\ debounceTimer = <<>>
    /\ data = InitialSearchData
    /\ searchMatches = <<Pos(0, ColA), Pos(1, ColA)>>

\* C34: focusCell's animation-frame retries never move the DOM focus to a
\* cell other than the current focusedCell: whenever a cell gains the DOM
\* focus, it is the cell focusedCell names.
C34_FramesFocusOnlyFocusedCell ==
    [][(activeElement' # activeElement /\ activeElement' # <<>>) =>
           /\ focusedCell' # NoCell
           /\ activeElement' = getCellKey(focusedCell'.rowIndex, focusedCell'.columnId)]_vars

\* The files of a list, as a set.
FilesOf(list) == {list[i] : i \in 1..Len(list)}

C36_OverlappingUploadsKeepEveryFile ==
    \A first \in fileCell.pending : \A second \in fileCell.pending \ {first} :
        LET settled == addFilesResume(addFilesResume(fileCell, first, UploadedFiles(first)),
                                      second, UploadedFiles(second))
            returned == FilesOf(UploadedFiles(first)) \cup FilesOf(UploadedFiles(second))
        IN  /\ returned \subseteq FilesOf(settled.files)
            /\ returned \subseteq FilesOf(settled.value)
            /\ \A f \in FilesOf(settled.files) : f.url
            /\ settled.uploadingFiles = {}

\* The same, for an upload that no other upload overlaps.
C36_SingleUploadKeepsEveryFile ==
    \A upload \in fileCell.pending :
        (fileCell.pending = {upload} /\ fileCell.files = upload.filesWithTemp) =>
            LET settled == addFilesResume(fileCell, upload, UploadedFiles(upload))
            IN  /\ FilesOf(UploadedFiles(upload)) \subseteq FilesOf(settled.files)
                /\ settled.value = settled.files
                /\ \A f \in FilesOf(settled.files) : f.url
                /\ settled.uploadingFiles = {}

\* C37: when reading the clipboard fails, paste is a silent no-op: a
\* pasteFromClipboard whose readText() rejects ends normally, emits no data
\* update, opens no paste dialog and leaves data, selection, focus and the
\* cut set as they were; the same holds for the rejection of a read that is
\* pending.
C37_FailedReadIsNoOp ==
    LET started == pasteFromClipboard(Cur)
        failed == IF started.pastePending > pastePending
                  THEN pasteFromClipboardCatch(started) ELSE started
        pending == pasteFromClipboardCatch(Cur)
    IN  /\ failed = Cur
        /\ pastePending > 0 =>
               /\ pending.emitted = {}
               /\ pending.data = data
               /\ pending.pasteDialog = pasteDialog
               /\ pending.selectionState = selectionState
               /\ pending.selectionAnchor = selectionAnchor
               /\ pending.focusedCell = focusedCell
               /\ pending.editingCell = editingCell
               /\ pending.cutCells = cutCells
               /\ pending.clipboard = clipboard

\* C37 witness: a clipboard read is pending while a cell is focused and
\* cells are cut.
C37_Witness ==
    /\ pastePending > 0
    /\ focusedCell = Pos(0, ColA)
    /\ cutCells = {getCellKey(0, ColA)}
    /\ clipboard # <<>>

\* The key of the event and the key of the binding are the same key, letter
\* case aside.
SameKeyIgnoringCase(eventKey, bindingKey) ==
    \/ eventKey = bindingKey
    \/ <<eventKey, bindingKey>> \in {<<"C", "c">>}

\* C38: the chord matching rule of matchesKeyBinding. A binding that requests
\* ctrl or meta matches an event iff the key matches case-insensitively, at
\* least one of ctrlKey and metaKey is held, and shift and alt equal the
\* binding's; a binding that requests neither matches iff the key matches,
\* neither ctrlKey nor metaKey is held, and shift and alt equal the binding's.
C38_ChordMatchingRule ==
    (keyboard # <<>> /\ keyboard[1] = "matchesKeyBinding") =>
        LET event == keyboard[2]
            binding == keyboard[3]
            matched == keyboard[4]
            rest == /\ SameKeyIgnoringCase(event.key, binding.key)
                    /\ event.shiftKey = binding.shift
                    /\ event.altKey = binding.alt
        IN  /\ (binding.ctrl \/ binding.meta) =>
                (matched <=> (rest /\ (event.ctrlKey \/ event.metaKey)))
            /\ (~binding.ctrl /\ ~binding.meta) =>
                (matched <=> (rest /\ ~event.ctrlKey /\ ~event.metaKey))

\* Shift+Cmd+C, reported as an upper-case C with metaKey, was matched against
\* the binding {key: 'c', ctrl, shift}, and matched.
C38_Witness ==
    /\ keyboard # <<>>
    /\ keyboard[1] = "matchesKeyBinding"
    /\ keyboard[2].key = "C" /\ keyboard[2].metaKey /\ keyboard[2].shiftKey
    /\ ~keyboard[2].ctrlKey /\ ~keyboard[2].altKey
    /\ keyboard[3].key = "c" /\ keyboard[3].ctrl /\ keyboard[3].shift
    /\ ~keyboard[3].meta /\ ~keyboard[3].alt
    /\ keyboard[4]

\* The entries of DEFAULT_KEY_BINDINGS one of whose bindings matches the event.
MatchingActions(event) ==
    {i \in 1..Len(DEFAULT_KEY_BINDINGS) :
        \E j \in 1..Len(DEFAULT_KEY_BINDINGS[i][2]) :
            matchesKeyBinding(event, DEFAULT_KEY_BINDINGS[i][2][j])}

\* C40: no key chord resolves ambiguously. For every combination of key, ctrl,
\* meta, shift and alt, the bindings of at most one action of
\* DEFAULT_KEY_BINDINGS match, so the action getKeyboardAction returns is that
\* of every matching entry, whatever the declaration order of the actions.
C40_NoAmbiguousChord ==
    (keyboard # <<>> /\ keyboard[1] = "getKeyboardAction") =>
        LET matching == MatchingActions(keyboard[2])
        IN  /\ Cardinality(matching) <= 1
            /\ \A i \in matching : keyboard[3] = DEFAULT_KEY_BINDINGS[i][1]
            /\ matching = {} => keyboard[3] = ""

\* Ctrl+Shift+Z, a chord whose key and ctrl two actions bind, resolved to redo.
C40_Witness ==
    /\ keyboard # <<>>
    /\ keyboard[1] = "getKeyboardAction"
    /\ keyboard[2].key = "z" /\ keyboard[2].ctrlKey /\ keyboard[2].shiftKey
    /\ ~keyboard[2].metaKey /\ ~keyboard[2].altKey
    /\ keyboard[3] = "redo"

\* The values of NavigationDirection.
NavigationDirections ==
    {"up", "down", "left", "right", "home", "end", "ctrl+home", "ctrl+end", "pageup", "pagedown"}

\* The cell Shift+navigation leaves the focus on: the target of
\* getNavigationTarget, or the focused cell when there is none.
ShiftNavigationReaches(direction) ==
    LET target == getNavigationTarget(Cur, direction)
    IN  IF target = NoCell THEN focusedCell ELSE target

\* C39: Shift+arrow extends the selection to the cell plain navigation would
\* reach. For every direction and every focused cell, the target computed by
\* getNavigationTarget is the cell navigateCell would focus, or both make no
\* move.
C39_ShiftTargetIsPlainTarget ==
    focusedCell # NoCell =>
        \A direction \in NavigationDirections :
            navigateCell(Cur, direction).focusedCell = ShiftNavigationReaches(direction)

\* The same, for every direction but left on the first navigable column and
\* right on the last, where navigateCell alone goes on to the neighbouring row.
C39_ShiftTargetIsPlainTargetInsideRow ==
    focusedCell # NoCell =>
        \A direction \in NavigationDirections :
            ~ (\/ direction = "left" /\ focusedCell.columnId = getFirstNavigableColumnId
               \/ direction = "right" /\ focusedCell.columnId = getLastNavigableColumnId) =>
                navigateCell(Cur, direction).focusedCell = ShiftNavigationReaches(direction)

====
